---------------------------- MODULE Spec2Model ----------------------------
(***************************************************************************)
(* Model of the schema-transformation core of the repository:              *)
(*   - the functional-dependency engine (normalization/fd_parser.py),      *)
(*   - the BCNF / 3NF decomposers (normalization/algorithms.py),           *)
(*   - the ERD -> DSD transformer (erd_to_dsd/transformation_engine.py)    *)
(*     and the DSD validator (erd_to_dsd/validation_service.py),           *)
(*   - the SQL formatter, the type mapping and the constraint analyzer,    *)
(*   - transform_erd_to_sql (erd_to_dsd/__init__.py).                      *)
(*                                                                         *)
(* The code is a collection of synchronous pure functions.  Each           *)
(* specification below draws the inputs of a family of functions from      *)
(* bounded sets and has one action per function call; a call stores its    *)
(* arguments and its result in the variable `ret`.                         *)
(***************************************************************************)
EXTENDS Integers, Sequences, FiniteSets, TLC

VARIABLES
    table,   \* normalization: the Table handed to the decomposers
    fds,     \* normalization: the list of FunctionalDependency objects
    ret,     \* the last call: [op |-> name, ...arguments and result]
    erd,     \* transformation: the entities and relationships consumed so far
    dsd      \* transformation: the DSDSchema being built

vars == <<table, fds, ret, erd, dsd>>

(***************************************************************************)
(* Bounds of the model.                                                    *)
(***************************************************************************)
NumAttrs == 4      \* attribute names available to tables and FDs
MinCols  == 3      \* the table has MinCols..NumAttrs columns
MaxDet   == 2      \* largest determinant of an input FD
MaxDep   == 2      \* largest dependent of an input FD
MaxFds   == 2      \* longest FD list

AttrNames == <<"A", "B", "C", "D", "E", "F">>

Attrs == {AttrNames[i] : i \in 1..NumAttrs}

Range(s) == {s[i] : i \in 1..Len(s)}

(***************************************************************************)
(* fd_parser.py                                                            *)
(***************************************************************************)

\* class FunctionalDependency: two sets; equality is by the two sets.
FunctionalDependency(det, dep) == [determinant |-> det, dependent |-> dep]

\* One pass of `for fd in fds` inside compute_closure's while loop.
RECURSIVE ClosurePass(_, _, _)
ClosurePass(closure, F, i) ==
    IF i > Len(F) THEN closure
    ELSE LET fd == F[i]
             new_attrs == fd.dependent \ closure
         IN  IF fd.determinant \subseteq closure /\ new_attrs # {}
             THEN ClosurePass(closure \cup new_attrs, F, i + 1)
             ELSE ClosurePass(closure, F, i + 1)

\* Mutant of compute_closure: a single pass over the FDs, no fixed point.
compute_closure_one_pass(attributes, F) == ClosurePass(attributes, F, 1)

\* compute_closure: repeat the pass while it changed the closure.
RECURSIVE compute_closure(_, _)
compute_closure(attributes, F) ==
    LET after == ClosurePass(attributes, F, 1)
    IN  IF after = attributes THEN attributes ELSE compute_closure(after, F)

\* find_candidate_keys.is_superkey
is_superkey(attrs, all_attributes, F) ==
    compute_closure(attrs, F) = all_attributes

\* The combos of one `size` that find_candidate_keys appends: superkeys with
\* no proper non-empty subset that is a superkey (the check against the keys
\* already found is subsumed: they all have this same size).
KeysOfSize(size, all_attributes, F) ==
    {K \in SUBSET all_attributes :
        /\ Cardinality(K) = size
        /\ is_superkey(K, all_attributes, F)
        /\ \A S \in SUBSET K :
              (S # {} /\ Cardinality(S) < size) => ~is_superkey(S, all_attributes, F)}

\* The loop `for size in range(1, len(all_attributes) + 1)` with its
\* `if candidate_keys: break` after the first size that yields a key.
RECURSIVE KeysFromSize(_, _, _)
KeysFromSize(size, all_attributes, F) ==
    IF size > Cardinality(all_attributes) THEN {}
    ELSE LET found == KeysOfSize(size, all_attributes, F)
         IN  IF found # {} THEN found
             ELSE KeysFromSize(size + 1, all_attributes, F)

\* find_candidate_keys: the keys found (the order of the returned list is the
\* iteration order of a Python set, so the result is modelled as a set).
find_candidate_keys(all_attributes, F) ==
    LET candidate_keys == KeysFromSize(1, all_attributes, F)
    IN  IF candidate_keys # {} THEN candidate_keys ELSE {all_attributes}

get_prime_attributes(all_attributes, F) ==
    UNION find_candidate_keys(all_attributes, F)

is_bcnf_violation(fd, all_attributes, F) ==
    IF fd.dependent \subseteq fd.determinant THEN FALSE
    ELSE compute_closure(fd.determinant, F) # all_attributes

is_3nf_violation(fd, all_attributes, F) ==
    IF fd.dependent \subseteq fd.determinant THEN FALSE
    ELSE IF compute_closure(fd.determinant, F) = all_attributes THEN FALSE
    ELSE \E attr \in fd.dependent \ fd.determinant :
            attr \notin get_prime_attributes(all_attributes, F)

(***************************************************************************)
(* algorithms.py: Table                                                    *)
(***************************************************************************)

\* Table.get_column_names
get_column_names(t) == Range(t.columns)

\* `relevant_fds` of decompose / check_normalization_level.
RelevantFds(t, F) ==
    SelectSeq(F, LAMBDA fd : /\ fd.determinant \subseteq get_column_names(t)
                             /\ fd.dependent \subseteq get_column_names(t))

\* The smallest element of a non-empty set of indexes.
MinOf(S) == CHOOSE i \in S : \A j \in S : i <= j

EmptyCounter == [n \in {} |-> 0]

\* BCNFDecomposer._generate_table_name: the name and the updated table_counter.
BCNF_generate_table_name(counter, base_name, suffix) ==
    LET name == base_name \o "_" \o suffix
    IN  IF name \notin DOMAIN counter
        THEN [name |-> name, counter |-> counter @@ (name :> 0)]
        ELSE [name |-> name \o "_" \o ToString(counter[name] + 1),
              counter |-> [counter EXCEPT ![name] = @ + 1]]

\* _create_table_subset: the original's columns, in order, that are in attrs;
\* the new Table has no constraints.
create_table_subset(original, attrs, new_name) ==
    [name |-> new_name,
     columns |-> SelectSeq(original.columns, LAMBDA c : c \in attrs),
     constraints |-> <<>>]

\* _set_primary_key
set_primary_key(t, key_attrs) ==
    [t EXCEPT !.constraints =
        Append(SelectSeq(@, LAMBDA c : c.type # "PRIMARY KEY"),
               [name |-> "pk_" \o t.name, type |-> "PRIMARY KEY",
                columns |-> key_attrs])]

\* BCNFDecomposer._add_foreign_key
add_foreign_key(source_table, target_table, fk_attrs) ==
    [source_table EXCEPT !.constraints =
        Append(@, [name |-> "fk_" \o source_table.name \o "_" \o target_table.name,
                   type |-> "FOREIGN KEY",
                   columns |-> fk_attrs,
                   referenced_table |-> target_table.name,
                   referenced_columns |-> fk_attrs,
                   on_delete |-> "CASCADE", on_update |-> "CASCADE"])]

\* BCNFDecomposer._project_fds
project_fds(F, attrs) ==
    LET kept == SelectSeq(F, LAMBDA fd :
                    /\ fd.determinant \subseteq attrs
                    /\ fd.dependent \cap attrs # {}
                    /\ fd.dependent \cap attrs # fd.determinant)
    IN  [i \in 1..Len(kept) |->
            FunctionalDependency(kept[i].determinant, kept[i].dependent \cap attrs)]

\* Mutant of FindViolation: only the first FD is examined.
FindViolation_first_only(all_attrs, F) ==
    IF /\ Len(F) > 0
       /\ F[1].determinant \subseteq all_attrs
       /\ ~(F[1].dependent \subseteq F[1].determinant)
       /\ is_bcnf_violation(F[1], all_attrs, F)
    THEN 1 ELSE 0

\* The loop of _decompose_recursive that looks for a violation: the index of
\* the first violating FD, 0 for None.
FindViolation(all_attrs, F) ==
    LET hits == {i \in 1..Len(F) :
                    /\ F[i].determinant \subseteq all_attrs
                    /\ ~(F[i].dependent \subseteq F[i].determinant)
                    /\ is_bcnf_violation(F[i], all_attrs, F)}
    IN  IF hits = {} THEN 0 ELSE MinOf(hits)

\* Mutant of SplitTable: R2 keeps the dependent columns.
SplitTable_keeps_dependent(t, violation, counter) ==
    LET x == violation.determinant
        y == violation.dependent \ x
        n1 == BCNF_generate_table_name(counter, t.name,
                  IF Cardinality(x) = 1 THEN CHOOSE a \in x : TRUE ELSE "detail")
        r1_table == set_primary_key(create_table_subset(t, x \cup y, n1.name), x)
    IN  [r1_table |-> r1_table,
         r2_table |-> add_foreign_key(t, r1_table, x),
         counter |-> n1.counter,
         change |-> [change_type |-> "table_split", original_table |-> t.name,
                     new_tables |-> <<n1.name, t.name>>,
                     fd_violated |-> violation, columns_affected |-> y],
         split |-> [of |-> get_column_names(t), r1 |-> x \cup y,
                    r2 |-> get_column_names(t), x |-> x, y |-> y]]

\* Mutant of SplitTable: R2 is all - Y without the determinant added back.
SplitTable_drops_determinant(t, violation, counter) ==
    LET all_attrs == get_column_names(t)
        x == violation.determinant
        y == violation.dependent \ x
        n1 == BCNF_generate_table_name(counter, t.name,
                  IF Cardinality(x) = 1 THEN CHOOSE a \in x : TRUE ELSE "detail")
        n2 == BCNF_generate_table_name(n1.counter, t.name, "main")
        r1_table == set_primary_key(create_table_subset(t, x \cup y, n1.name), x)
    IN  [r1_table |-> r1_table,
         r2_table |-> add_foreign_key(
                          create_table_subset(t, all_attrs \ (x \cup y), n2.name),
                          r1_table, x),
         counter |-> n2.counter,
         change |-> [change_type |-> "table_split", original_table |-> t.name,
                     new_tables |-> <<n1.name, n2.name>>,
                     fd_violated |-> violation, columns_affected |-> y],
         split |-> [of |-> all_attrs, r1 |-> x \cup y,
                    r2 |-> all_attrs \ (x \cup y), x |-> x, y |-> y]]

\* _decompose_recursive from `x = violation.determinant` to the recording of
\* the change: the two halves, the updated table_counter, the change and
\* `split`, the (table, R1, R2, X, Y) of the split.
SplitTable(t, violation, counter) ==
    LET all_attrs == get_column_names(t)
        x == violation.determinant
        y == violation.dependent \ x
        r1_attrs == x \cup y
        r2_attrs == (all_attrs \ y) \cup x
        n1 == BCNF_generate_table_name(counter, t.name,
                  IF Cardinality(x) = 1 THEN CHOOSE a \in x : TRUE ELSE "detail")
        n2 == IF r2_attrs # all_attrs
              THEN BCNF_generate_table_name(n1.counter, t.name, "main")
              ELSE [name |-> t.name, counter |-> n1.counter]
        r1_table == set_primary_key(create_table_subset(t, r1_attrs, n1.name), x)
    IN  [r1_table |-> r1_table,
         r2_table |-> add_foreign_key(create_table_subset(t, r2_attrs, n2.name),
                                      r1_table, x),
         counter |-> n2.counter,
         change |-> [change_type |-> "table_split", original_table |-> t.name,
                     new_tables |-> <<n1.name, n2.name>>,
                     fd_violated |-> violation, columns_affected |-> y],
         split |-> [of |-> all_attrs, r1 |-> r1_attrs, r2 |-> r2_attrs,
                    x |-> x, y |-> y]]

\* BCNFDecomposer._decompose_recursive.  st carries the decomposer's fields
\* (table_counter, changes); the result adds the list of tables returned and
\* `splits`, the split records of every split made.
RECURSIVE BCNF_decompose_recursive(_, _, _)
BCNF_decompose_recursive(t, F, st) ==
    LET v == FindViolation(get_column_names(t), F)
    IN  IF v = 0
        THEN [tables |-> <<t>>, fdsOf |-> <<F>>, counter |-> st.counter,
              changes |-> st.changes, splits |-> st.splits]
        ELSE
        LET s == SplitTable(t, F[v], st.counter)
            res1 == BCNF_decompose_recursive(s.r1_table, project_fds(F, s.split.r1),
                        [counter |-> s.counter,
                         changes |-> Append(st.changes, s.change),
                         splits |-> Append(st.splits, s.split)])
            res2 == BCNF_decompose_recursive(s.r2_table, project_fds(F, s.split.r2),
                        [counter |-> res1.counter, changes |-> res1.changes,
                         splits |-> res1.splits])
        IN  [tables |-> res1.tables \o res2.tables,
             fdsOf |-> res1.fdsOf \o res2.fdsOf,
             counter |-> res2.counter, changes |-> res2.changes,
             splits |-> res2.splits]

\* BCNFDecomposer.decompose: fresh changes and table_counter, the relevant
\* FDs, then the recursion.
BCNF_decompose(t, F) ==
    BCNF_decompose_recursive(t, RelevantFds(t, F),
        [counter |-> EmptyCounter, changes |-> <<>>, splits |-> <<>>])

(***************************************************************************)
(* algorithms.py: ThreeNFDecomposer.  A Python set is iterated in an order *)
(* the program does not control (string hashing is randomised per          *)
(* process): `ord`, a permutation of the attribute names, is the order in  *)
(* which one call iterates its sets.                                       *)
(***************************************************************************)

\* list(S) / `for a in S`: the elements of set S in iteration order ord.
Iterate(S, ord) == SelectSeq(ord, LAMBDA a : a \in S)

\* The iteration orders of the sets of attributes drawn from S.
Orders(S) ==
    {o \in [1..Cardinality(S) -> S] :
        \A i, j \in 1..Cardinality(S) : i # j => o[i] # o[j]}

\* Step 1 of _compute_minimal_cover for one FD: one FD per dependent
\* attribute outside the determinant.
SingletonFds(fd, ord) ==
    LET deps == Iterate(fd.dependent \ fd.determinant, ord)
    IN  [i \in 1..Len(deps) |-> FunctionalDependency(fd.determinant, {deps[i]})]

RECURSIVE DecomposeRhs(_, _, _)
DecomposeRhs(F, i, ord) ==
    IF i > Len(F) THEN <<>>
    ELSE SingletonFds(F[i], ord) \o DecomposeRhs(F, i + 1, ord)

\* Step 2 for one FD: `for attr in fd.determinant`, dropping attr from
\* minimal_det when the rest is non-empty and still determines the dependent
\* (the closure is taken under `decomposed`, as the code does).
RECURSIVE ReduceDeterminant(_, _, _, _, _)
ReduceDeterminant(minimal_det, attrs, i, fd, decomposed) ==
    IF i > Len(attrs) THEN minimal_det
    ELSE LET test_det == minimal_det \ {attrs[i]}
         IN  IF /\ test_det # {}
                /\ fd.dependent \subseteq compute_closure(test_det, decomposed)
             THEN ReduceDeterminant(test_det, attrs, i + 1, fd, decomposed)
             ELSE ReduceDeterminant(minimal_det, attrs, i + 1, fd, decomposed)

\* ThreeNFDecomposer._compute_minimal_cover
compute_minimal_cover(F, ord) ==
    LET decomposed == DecomposeRhs(F, 1, ord)
        minimized ==
            [i \in 1..Len(decomposed) |->
                FunctionalDependency(
                    ReduceDeterminant(decomposed[i].determinant,
                        Iterate(decomposed[i].determinant, ord), 1,
                        decomposed[i], decomposed),
                    decomposed[i].dependent)]
    IN  SelectSeq(minimized, LAMBDA fd :
            LET other_fds == SelectSeq(minimized, LAMBDA f : f # fd)
            IN  ~(fd.dependent \subseteq compute_closure(fd.determinant, other_fds)))

\* _group_by_determinant: the groups in order of first appearance, each with
\* its determinant and the union of its dependents.
group_by_determinant(F) ==
    LET firsts == SelectSeq([i \in 1..Len(F) |-> i], LAMBDA i :
                      \A j \in 1..(i - 1) : F[j].determinant # F[i].determinant)
    IN  [k \in 1..Len(firsts) |->
            [determinant |-> F[firsts[k]].determinant,
             dependents |-> UNION {F[j].dependent :
                 j \in {j \in 1..Len(F) : F[j].determinant = F[firsts[k]].determinant}}]]

\* str.lower() on the attribute names of the model.
LowerNames == <<"a", "b", "c", "d", "e", "f">>
Lower(a) == LowerNames[CHOOSE i \in 1..Len(AttrNames) : AttrNames[i] = a]

\* '_'.join(sorted(det_set)) followed by .replace(' ', '_').lower()
RECURSIVE JoinLower(_)
JoinLower(names) ==
    IF Len(names) = 0 THEN ""
    ELSE IF Len(names) = 1 THEN Lower(names[1])
    ELSE Lower(names[1]) \o "_" \o JoinLower(Tail(names))

Sorted(S) == SelectSeq(AttrNames, LAMBDA a : a \in S)

\* ThreeNFDecomposer._generate_table_name (suffix already cleaned up)
ThreeNF_generate_table_name(counter, base_name, suffix) ==
    LET name == base_name \o "_" \o suffix
    IN  IF name \notin DOMAIN counter
        THEN [name |-> name, counter |-> counter @@ (name :> 0)]
        ELSE [name |-> name \o "_" \o ToString(counter[name] + 1),
              counter |-> [counter EXCEPT ![name] = @ + 1]]

\* Step 2 of decompose: one table per determinant group.
RECURSIVE SynthesizeTables(_, _, _, _)
SynthesizeTables(t, groups, i, st) ==
    IF i > Len(groups) THEN st
    ELSE LET det_set == groups[i].determinant
             attrs == det_set \cup groups[i].dependents
             n == ThreeNF_generate_table_name(st.counter, t.name,
                                              JoinLower(Sorted(det_set)))
             new_table == set_primary_key(create_table_subset(t, attrs, n.name),
                                          det_set)
         IN  SynthesizeTables(t, groups, i + 1,
                [tables |-> Append(st.tables, new_table),
                 counter |-> n.counter,
                 changes |-> Append(st.changes,
                     [change_type |-> "table_created", original_table |-> t.name,
                      new_tables |-> <<n.name>>, columns_affected |-> attrs])])

\* candidate_keys[0]: find_candidate_keys lists the keys in the order of
\* itertools.combinations over the iterated attribute set, which is the
\* lexicographic order of the keys' positions in ord.
Pos(a, ord) == CHOOSE i \in 1..Len(ord) : ord[i] = a

ComboBefore(K1, K2, ord) ==
    LET s == Iterate(K1, ord)
        u == Iterate(K2, ord)
    IN  \E i \in 1..Len(s) :
            /\ i <= Len(u)
            /\ \A j \in 1..(i - 1) : s[j] = u[j]
            /\ Pos(s[i], ord) < Pos(u[i], ord)

FirstKey(keys, ord) ==
    CHOOSE K \in keys : \A K2 \in keys \ {K} : ComboBefore(K, K2, ord)

\* Mutant of EnsureKeyTable: the key table is never added.
EnsureKeyTable_never(t, candidate_keys, ord, st) == st

\* Step 3 of decompose: a key-only table unless some table holds a key.
EnsureKeyTable(t, candidate_keys, ord, st) ==
    LET key_covered == \E key \in candidate_keys : \E i \in 1..Len(st.tables) :
                           key \subseteq get_column_names(st.tables[i])
    IN  IF key_covered \/ candidate_keys = {} THEN st
        ELSE LET key == FirstKey(candidate_keys, ord)
                 n == ThreeNF_generate_table_name(st.counter, t.name, "key")
                 key_table == set_primary_key(create_table_subset(t, key, n.name), key)
             IN  [tables |-> Append(st.tables, key_table),
                  counter |-> n.counter,
                  changes |-> Append(st.changes,
                      [change_type |-> "table_created", original_table |-> t.name,
                       new_tables |-> <<n.name>>, columns_affected |-> key])]

\* Mutant of remove_redundant_tables: a table is dropped when another table
\* has the same columns, not only when it has strictly more.
remove_redundant_tables_not_proper(tables) ==
    SelectSeq(tables, LAMBDA t1 :
        ~\E j \in 1..Len(tables) :
            /\ t1 # tables[j]
            /\ get_column_names(t1) \subseteq get_column_names(tables[j]))

\* ThreeNFDecomposer._remove_redundant_tables
remove_redundant_tables(tables) ==
    SelectSeq(tables, LAMBDA t1 :
        ~\E j \in 1..Len(tables) :
            /\ t1 # tables[j]
            /\ get_column_names(t1) \subseteq get_column_names(tables[j])
            /\ get_column_names(t1) # get_column_names(tables[j]))

\* The primary key _add_foreign_keys reads from a table: the columns of its
\* first PRIMARY KEY constraint, {} for None.
FirstPk(t) ==
    LET pks == SelectSeq(t.constraints, LAMBDA c : c.type = "PRIMARY KEY")
    IN  IF Len(pks) = 0 THEN {} ELSE pks[1].columns

\* ThreeNFDecomposer._add_foreign_keys: the nested loops over (i, j), each
\* appending to tables[j] in place.
RECURSIVE add_foreign_keys(_, _, _)
add_foreign_keys(tables, i, j) ==
    IF i > Len(tables) THEN tables
    ELSE IF j > Len(tables) THEN add_foreign_keys(tables, i + 1, 1)
    ELSE LET t1 == tables[i]
             t2 == tables[j]
             t1_pk == FirstPk(t1)
             fk_exists == \E k \in 1..Len(t2.constraints) :
                              /\ t2.constraints[k].type = "FOREIGN KEY"
                              /\ t2.constraints[k].referenced_table = t1.name
             fk_constraint == [name |-> "fk_" \o t2.name \o "_" \o t1.name,
                               type |-> "FOREIGN KEY",
                               columns |-> t1_pk,
                               referenced_table |-> t1.name,
                               referenced_columns |-> t1_pk,
                               on_delete |-> "CASCADE", on_update |-> "CASCADE"]
         IN  IF /\ t1_pk # {}
                /\ i # j
                /\ t1_pk \subseteq get_column_names(t2)
                /\ t1_pk # get_column_names(t2)
                /\ ~fk_exists
             THEN add_foreign_keys(
                      [tables EXCEPT ![j].constraints = Append(@, fk_constraint)],
                      i, j + 1)
             ELSE add_foreign_keys(tables, i, j + 1)

\* ThreeNFDecomposer.decompose
ThreeNF_decompose(t, F, ord) ==
    LET all_attrs == get_column_names(t)
        relevant_fds == RelevantFds(t, F)
        minimal_cover == compute_minimal_cover(relevant_fds, ord)
        candidate_keys == find_candidate_keys(all_attrs, relevant_fds)
        synthesized == SynthesizeTables(t, group_by_determinant(minimal_cover), 1,
                           [tables |-> <<>>, counter |-> EmptyCounter,
                            changes |-> <<>>])
        keyed == EnsureKeyTable(t, candidate_keys, ord, synthesized)
    IN  IF Len(minimal_cover) = 0
        THEN [tables |-> <<t>>, changes |-> <<>>, minimal_cover |-> minimal_cover,
              before_removal |-> <<>>]
        ELSE [tables |-> add_foreign_keys(remove_redundant_tables(keyed.tables), 1, 1),
              changes |-> keyed.changes, minimal_cover |-> minimal_cover,
              before_removal |-> keyed.tables]

(***************************************************************************)
(* erd_to_dsd/type_mapping.py                                              *)
(***************************************************************************)

\* A key a dict does not hold, and Python's None.
Absent == "<absent>"
None == "<None>"

\* dict.get(key, default)
Get(d, key, default) == IF d[key] = Absent THEN default ELSE d[key]

Dialects == {"postgresql", "mysql"}

\* TypeMapper.DEFAULT_PARAMS['String']['length']
DefaultStringLength == 255

\* TypeMapper.DEFAULT_PARAMS['Decimal']
DefaultPrecision == 10
DefaultScale == 2

\* TypeMapper.TYPE_MAPPINGS; a template that ends with a parameter list in
\* braces is its text before the list and the parameters named.
TYPE_MAPPINGS ==
    [postgresql |-> [String |-> [text |-> "VARCHAR", param |-> "length"],
                     Text |-> [text |-> "TEXT", param |-> None],
                     Integer |-> [text |-> "INTEGER", param |-> None],
                     SmallInt |-> [text |-> "SMALLINT", param |-> None],
                     BigInt |-> [text |-> "BIGINT", param |-> None],
                     Decimal |-> [text |-> "DECIMAL", param |-> "precision,scale"],
                     Float |-> [text |-> "REAL", param |-> None],
                     Double |-> [text |-> "DOUBLE PRECISION", param |-> None],
                     Boolean |-> [text |-> "BOOLEAN", param |-> None],
                     Date |-> [text |-> "DATE", param |-> None],
                     Time |-> [text |-> "TIME", param |-> None],
                     DateTime |-> [text |-> "TIMESTAMP", param |-> None],
                     Timestamp |-> [text |-> "TIMESTAMP", param |-> None],
                     Binary |-> [text |-> "BYTEA", param |-> None],
                     JSON |-> [text |-> "JSONB", param |-> None],
                     UUID |-> [text |-> "UUID", param |-> None],
                     Array |-> [text |-> "ARRAY", param |-> None]],
     mysql |-> [String |-> [text |-> "VARCHAR", param |-> "length"],
                Text |-> [text |-> "TEXT", param |-> None],
                Integer |-> [text |-> "INT", param |-> None],
                SmallInt |-> [text |-> "SMALLINT", param |-> None],
                BigInt |-> [text |-> "BIGINT", param |-> None],
                Decimal |-> [text |-> "DECIMAL", param |-> "precision,scale"],
                Float |-> [text |-> "FLOAT", param |-> None],
                Double |-> [text |-> "DOUBLE", param |-> None],
                Boolean |-> [text |-> "TINYINT(1)", param |-> None],
                Date |-> [text |-> "DATE", param |-> None],
                Time |-> [text |-> "TIME", param |-> None],
                DateTime |-> [text |-> "DATETIME", param |-> None],
                Timestamp |-> [text |-> "TIMESTAMP", param |-> None],
                Binary |-> [text |-> "BLOB", param |-> None],
                JSON |-> [text |-> "JSON", param |-> None],
                UUID |-> [text |-> "CHAR(36)", param |-> None],
                Array |-> [text |-> "JSON", param |-> None]],
     mssql |-> [String |-> [text |-> "NVARCHAR", param |-> "length"],
                Text |-> [text |-> "NVARCHAR(MAX)", param |-> None],
                Integer |-> [text |-> "INT", param |-> None],
                SmallInt |-> [text |-> "SMALLINT", param |-> None],
                BigInt |-> [text |-> "BIGINT", param |-> None],
                Decimal |-> [text |-> "DECIMAL", param |-> "precision,scale"],
                Float |-> [text |-> "FLOAT", param |-> None],
                Double |-> [text |-> "FLOAT(53)", param |-> None],
                Boolean |-> [text |-> "BIT", param |-> None],
                Date |-> [text |-> "DATE", param |-> None],
                Time |-> [text |-> "TIME", param |-> None],
                DateTime |-> [text |-> "DATETIME2", param |-> None],
                Timestamp |-> [text |-> "DATETIME2", param |-> None],
                Binary |-> [text |-> "VARBINARY(MAX)", param |-> None],
                JSON |-> [text |-> "NVARCHAR(MAX)", param |-> None],
                UUID |-> [text |-> "UNIQUEIDENTIFIER", param |-> None],
                Array |-> [text |-> "NVARCHAR(MAX)", param |-> None]],
     sqlite |-> [String |-> [text |-> "TEXT", param |-> None],
                 Text |-> [text |-> "TEXT", param |-> None],
                 Integer |-> [text |-> "INTEGER", param |-> None],
                 SmallInt |-> [text |-> "INTEGER", param |-> None],
                 BigInt |-> [text |-> "INTEGER", param |-> None],
                 Decimal |-> [text |-> "REAL", param |-> None],
                 Float |-> [text |-> "REAL", param |-> None],
                 Double |-> [text |-> "REAL", param |-> None],
                 Boolean |-> [text |-> "INTEGER", param |-> None],
                 Date |-> [text |-> "TEXT", param |-> None],
                 Time |-> [text |-> "TEXT", param |-> None],
                 DateTime |-> [text |-> "TEXT", param |-> None],
                 Timestamp |-> [text |-> "TEXT", param |-> None],
                 Binary |-> [text |-> "BLOB", param |-> None],
                 JSON |-> [text |-> "TEXT", param |-> None],
                 UUID |-> [text |-> "TEXT", param |-> None],
                 Array |-> [text |-> "TEXT", param |-> None]]]

\* TypeMapper.map_type: the template formatted with the default parameters
\* overridden by the given ones.
map_type(dialect, logical_type, length) ==
    LET template == TYPE_MAPPINGS[dialect][logical_type]
        final_length == IF length = None THEN DefaultStringLength ELSE length
    IN  CASE template.param = None -> template.text
          [] template.param = "length" ->
                template.text \o "(" \o ToString(final_length) \o ")"
          [] template.param = "precision,scale" ->
                template.text \o "(" \o ToString(DefaultPrecision) \o ","
                    \o ToString(DefaultScale) \o ")"

(***************************************************************************)
(* erd_to_dsd/transformation_engine.py                                     *)
(***************************************************************************)

DSDColumn(name, sql_type, nullable, unique, logical_type) ==
    [name |-> name, sql_type |-> sql_type, nullable |-> nullable,
     unique |-> unique, logical_type |-> logical_type,
     auto_increment |-> FALSE, default_value |-> None]

DSDConstraint(name, type, columns, referenced_table, referenced_columns, on_delete, on_update) ==
    [name |-> name, type |-> type, columns |-> columns,
     referenced_table |-> referenced_table,
     referenced_columns |-> referenced_columns,
     on_delete |-> on_delete, on_update |-> on_update]

\* A constraint that is no foreign key: the dataclass defaults.  The default
\* None of referenced_columns is the empty list, which is how every reader of
\* the field takes it (`referenced_columns or []`).
PlainConstraint(name, type, columns) ==
    DSDConstraint(name, type, columns, None, <<>>, "RESTRICT", "RESTRICT")

DSDIndex(name, columns) == [name |-> name, columns |-> columns, unique |-> FALSE]

DSDTable(name) ==
    [name |-> name, columns |-> <<>>, constraints |-> <<>>, indexes |-> <<>>,
     description |-> None]

DSDSchema(name, dialect) ==
    [name |-> name, tables |-> <<>>, dialect |-> dialect, description |-> None]

\* Mutant of transform_attribute_to_column: a primary-key column keeps the
\* attribute's nullable flag.
transform_attribute_to_column_keeps_nullable(dialect, attribute) ==
    [DSDColumn(Get(attribute, "name", "unknown_column"),
               map_type(dialect, Get(attribute, "type", "String"), None),
               attribute.nullable, attribute.unique, Get(attribute, "type", "String"))
        EXCEPT !.auto_increment = attribute.auto_increment]

\* ERDToDSDTransformer._transform_attribute_to_column
transform_attribute_to_column(dialect, attribute) ==
    LET logical_type == Get(attribute, "type", "String")
        column == [DSDColumn(Get(attribute, "name", "unknown_column"),
                             map_type(dialect, logical_type, None),
                             attribute.nullable, attribute.unique, logical_type)
                      EXCEPT !.auto_increment = attribute.auto_increment]
    IN  IF attribute.primary_key
        THEN [column EXCEPT !.nullable = FALSE]
        ELSE column

\* ERDToDSDTransformer._transform_entity_to_table
transform_entity_to_table(dialect, entity) ==
    LET table_name == Get(entity, "name", "unknown_table")
        attributes == entity.attributes
        columns == [i \in 1..Len(attributes) |->
                        transform_attribute_to_column(dialect, attributes[i])]
        pk_attrs == SelectSeq(attributes, LAMBDA attr : attr.primary_key)
        pk_columns == [i \in 1..Len(pk_attrs) |->
                          Get(pk_attrs[i], "name", "unknown_column")]
        pk == IF pk_columns # <<>>
              THEN <<PlainConstraint("pk_" \o table_name, "PRIMARY KEY", pk_columns)>>
              ELSE <<>>
        uq_attrs == SelectSeq(attributes,
                              LAMBDA attr : attr.unique /\ ~attr.primary_key)
        uq == [i \in 1..Len(uq_attrs) |->
                  PlainConstraint("uq_" \o table_name \o "_" \o uq_attrs[i].name,
                                  "UNIQUE", <<uq_attrs[i].name>>)]
    IN  [DSDTable(table_name) EXCEPT !.columns = columns, !.constraints = pk \o uq,
                                     !.description = ""]

\* ERDToDSDTransformer._find_table: the index of the first table of that
\* name, 0 for None.
find_table(schema, table_name) ==
    IF \E i \in 1..Len(schema.tables) : schema.tables[i].name = table_name
    THEN MinOf({i \in 1..Len(schema.tables) : schema.tables[i].name = table_name})
    ELSE 0

\* ERDToDSDTransformer._column_exists
column_exists(t, column_name) ==
    \E i \in 1..Len(t.columns) : t.columns[i].name = column_name

\* Mutant of FkColumn: the column keeps the dataclass default nullable = True.
FkColumn_nullable(to_attr) == DSDColumn(to_attr, "INTEGER", TRUE, FALSE, "Integer")

\* The DSDColumn _add_one_to_many_fk makes for the foreign key.
FkColumn(to_attr) == DSDColumn(to_attr, "INTEGER", FALSE, FALSE, "Integer")

\* ERDToDSDTransformer._add_one_to_many_fk
add_one_to_many_fk(relationship, schema) ==
    LET from_entity == relationship.from_entity
        to_entity == relationship.to_entity
        from_attr == Get(relationship, "from_attribute", "id")
        to_attr == Get(relationship, "to_attribute", from_entity \o "_id")
        ti == find_table(schema, to_entity)
    IN  IF ti = 0 THEN schema
        ELSE
          LET to_table == schema.tables[ti]
              columns == IF column_exists(to_table, to_attr)
                         THEN to_table.columns
                         ELSE Append(to_table.columns, FkColumn(to_attr))
              fk_constraint ==
                  DSDConstraint("fk_" \o to_entity \o "_" \o from_entity,
                                "FOREIGN KEY", <<to_attr>>, from_entity,
                                <<from_attr>>,
                                Get(relationship, "on_delete", "CASCADE"),
                                Get(relationship, "on_update", "CASCADE"))
              fk_index == DSDIndex("idx_" \o to_entity \o "_" \o to_attr,
                                   <<to_attr>>)
          IN  [schema EXCEPT !.tables[ti] =
                  [to_table EXCEPT
                      !.columns = columns,
                      !.constraints = Append(to_table.constraints, fk_constraint),
                      !.indexes = Append(to_table.indexes, fk_index)]]

\* Mutant of add_many_to_one_fk: the default FK column is named after the
\* wrong entity.
add_many_to_one_fk_wrong_default(relationship, schema) ==
    add_one_to_many_fk(
        [relationship EXCEPT
            !.from_entity = relationship.to_entity,
            !.to_entity = relationship.from_entity,
            !.from_attribute = Get(relationship, "to_attribute", "id"),
            !.to_attribute = Get(relationship, "from_attribute",
                                 relationship.from_entity \o "_id")],
        schema)

\* ERDToDSDTransformer._add_many_to_one_fk
add_many_to_one_fk(relationship, schema) ==
    add_one_to_many_fk(
        [relationship EXCEPT
            !.from_entity = relationship.to_entity,
            !.to_entity = relationship.from_entity,
            !.from_attribute = Get(relationship, "to_attribute", "id"),
            !.to_attribute = Get(relationship, "from_attribute",
                                 relationship.to_entity \o "_id")],
        schema)

\* ERDToDSDTransformer._add_one_to_one_fk
add_one_to_one_fk(relationship, schema) ==
    LET after == add_one_to_many_fk(relationship, schema)
        to_entity == relationship.to_entity
        to_attr == Get(relationship, "to_attribute",
                       relationship.from_entity \o "_id")
        ti == find_table(after, to_entity)
    IN  IF ti = 0 THEN after
        ELSE [after EXCEPT !.tables[ti].constraints =
                 Append(@, PlainConstraint("uq_" \o to_entity \o "_" \o to_attr,
                                           "UNIQUE", <<to_attr>>))]

\* Mutant of add_many_to_many_junction: the second foreign key keeps the
\* dataclass default on_delete.
add_many_to_many_junction_restrict(relationship, schema) ==
    LET from_entity == relationship.from_entity
        to_entity == relationship.to_entity
        junction_name == Get(relationship, "junction_table",
                             from_entity \o "_" \o to_entity)
        from_col == from_entity \o "_id"
        to_col == to_entity \o "_id"
    IN  [schema EXCEPT !.tables = Append(@,
            [DSDTable(junction_name) EXCEPT
                !.description = "Junction table for " \o from_entity \o " and "
                                    \o to_entity,
                !.columns = <<DSDColumn(from_col, "INTEGER", FALSE, FALSE, "Integer"),
                              DSDColumn(to_col, "INTEGER", FALSE, FALSE, "Integer")>>,
                !.constraints =
                    <<PlainConstraint("pk_" \o junction_name, "PRIMARY KEY",
                                      <<from_col, to_col>>),
                      DSDConstraint("fk_" \o junction_name \o "_" \o from_entity,
                                    "FOREIGN KEY", <<from_col>>, from_entity,
                                    <<"id">>, "CASCADE", "RESTRICT"),
                      DSDConstraint("fk_" \o junction_name \o "_" \o to_entity,
                                    "FOREIGN KEY", <<to_col>>, to_entity,
                                    <<"id">>, "RESTRICT", "RESTRICT")>>])]

\* ERDToDSDTransformer._add_many_to_many_junction
add_many_to_many_junction(relationship, schema) ==
    LET from_entity == relationship.from_entity
        to_entity == relationship.to_entity
        junction_name == Get(relationship, "junction_table",
                             from_entity \o "_" \o to_entity)
        from_col == from_entity \o "_id"
        to_col == to_entity \o "_id"
    IN  [schema EXCEPT !.tables = Append(@,
            [DSDTable(junction_name) EXCEPT
                !.description = "Junction table for " \o from_entity \o " and "
                                    \o to_entity,
                !.columns = <<DSDColumn(from_col, "INTEGER", FALSE, FALSE, "Integer"),
                              DSDColumn(to_col, "INTEGER", FALSE, FALSE, "Integer")>>,
                !.constraints =
                    <<PlainConstraint("pk_" \o junction_name, "PRIMARY KEY",
                                      <<from_col, to_col>>),
                      DSDConstraint("fk_" \o junction_name \o "_" \o from_entity,
                                    "FOREIGN KEY", <<from_col>>, from_entity,
                                    <<"id">>, "CASCADE", "RESTRICT"),
                      DSDConstraint("fk_" \o junction_name \o "_" \o to_entity,
                                    "FOREIGN KEY", <<to_col>>, to_entity,
                                    <<"id">>, "CASCADE", "RESTRICT")>>])]

\* ERDToDSDTransformer._process_relationship
process_relationship(relationship, schema) ==
    LET rel_type == Get(relationship, "type", "1:N")
    IN  CASE rel_type = "1:N" -> add_one_to_many_fk(relationship, schema)
          [] rel_type = "N:1" -> add_many_to_one_fk(relationship, schema)
          [] rel_type = "1:1" -> add_one_to_one_fk(relationship, schema)
          [] rel_type = "N:M" -> add_many_to_many_junction(relationship, schema)
          [] OTHER -> schema

(***************************************************************************)
(* erd_to_dsd/validation_service.py                                        *)
(***************************************************************************)

ValidationIssue(severity, t, column, constraint, code) ==
    [severity |-> severity, table |-> t, column |-> column,
     constraint |-> constraint, code |-> code]

RECURSIVE Flatten(_)
Flatten(ss) == IF ss = <<>> THEN <<>> ELSE Head(ss) \o Flatten(Tail(ss))

\* set([n for n in names if names.count(n) > 1]), listed by first occurrence.
Duplicates(names) ==
    LET first == {i \in 1..Len(names) :
                    /\ \E j \in 1..Len(names) : j # i /\ names[j] = names[i]
                    /\ \A j \in 1..(i - 1) : names[j] # names[i]}
    IN  [k \in 1..Cardinality(first) |->
            names[CHOOSE i \in first : Cardinality({j \in first : j < i}) = k - 1]]

\* DSDValidator._validate_tables
validate_tables(schema) ==
    LET tables == schema.tables
        table_names == [i \in 1..Len(tables) |-> tables[i].name]
        duplicates == Duplicates(table_names)
        no_tables ==
            IF tables = <<>>
            THEN <<ValidationIssue("error", "<schema>", None, None, "NO_TABLES")>>
            ELSE <<>>
        dups == [d \in 1..Len(duplicates) |->
                    ValidationIssue("error", duplicates[d], None, None,
                                    "DUPLICATE_TABLE")]
        empty == Flatten([i \in 1..Len(tables) |->
                    IF tables[i].columns = <<>>
                    THEN <<ValidationIssue("error", tables[i].name, None, None,
                                           "NO_COLUMNS")>>
                    ELSE <<>>])
    IN  no_tables \o dups \o empty

\* DSDValidator._validate_columns, the issues of one table.
TableColumnIssues(t) ==
    LET column_names == [i \in 1..Len(t.columns) |-> t.columns[i].name]
        duplicates == Duplicates(column_names)
    IN  [d \in 1..Len(duplicates) |->
            ValidationIssue("error", t.name, duplicates[d], None,
                            "DUPLICATE_COLUMN")]
        \o
        Flatten([i \in 1..Len(t.columns) |->
            IF t.columns[i].sql_type = ""
            THEN <<ValidationIssue("error", t.name, t.columns[i].name, None,
                                   "MISSING_TYPE")>>
            ELSE <<>>])

\* DSDValidator._validate_columns
validate_columns(schema) ==
    Flatten([i \in 1..Len(schema.tables) |-> TableColumnIssues(schema.tables[i])])

\* DSDValidator._validate_constraints, the columns of one constraint.
ConstraintColumnIssues(t, constraint) ==
    LET column_names == {t.columns[i].name : i \in 1..Len(t.columns)}
    IN  Flatten([k \in 1..Len(constraint.columns) |->
            IF constraint.columns[k] \notin column_names
            THEN <<ValidationIssue("error", t.name, None, constraint.name,
                                   "INVALID_CONSTRAINT_COLUMN")>>
            ELSE <<>>])

\* DSDValidator._validate_constraints, the issues of one table.
TableConstraintIssues_pk_error(t) ==
    LET pk_constraints == SelectSeq(t.constraints,
                                    LAMBDA c : c.type = "PRIMARY KEY")
        pk_issue ==
            IF Len(pk_constraints) # 1
            THEN <<ValidationIssue("error", t.name, None, None,
                                   IF pk_constraints = <<>> THEN "NO_PRIMARY_KEY"
                                   ELSE "MULTIPLE_PRIMARY_KEYS")>>
            ELSE <<>>
    IN  pk_issue \o
        Flatten([c \in 1..Len(t.constraints) |->
                    ConstraintColumnIssues(t, t.constraints[c])])

TableConstraintIssues(t) ==
    LET pk_constraints == SelectSeq(t.constraints,
                                    LAMBDA c : c.type = "PRIMARY KEY")
        pk_issue ==
            IF pk_constraints = <<>>
            THEN <<ValidationIssue("warning", t.name, None, None,
                                   "NO_PRIMARY_KEY")>>
            ELSE IF Len(pk_constraints) > 1
            THEN <<ValidationIssue("error", t.name, None, None,
                                   "MULTIPLE_PRIMARY_KEYS")>>
            ELSE <<>>
    IN  pk_issue \o
        Flatten([c \in 1..Len(t.constraints) |->
                    ConstraintColumnIssues(t, t.constraints[c])])

\* DSDValidator._validate_constraints
validate_constraints(schema) ==
    Flatten([i \in 1..Len(schema.tables) |->
                TableConstraintIssues(schema.tables[i])])

\* table_map[name] of _validate_foreign_key_references: a later table of the
\* same name replaces an earlier one in the dict.
TableMap(schema, name) ==
    schema.tables[CHOOSE i \in 1..Len(schema.tables) :
                      /\ schema.tables[i].name = name
                      /\ \A j \in (i + 1)..Len(schema.tables) :
                            schema.tables[j].name # name]

\* next((c for c in t.columns if c.name == name), None): the column in a
\* list of one, the empty list for None.
FirstColumn(t, name) ==
    IF column_exists(t, name)
    THEN <<t.columns[MinOf({i \in 1..Len(t.columns) : t.columns[i].name = name})]>>
    ELSE <<>>

\* DSDValidator._validate_foreign_key_references, one foreign key of table t.
ForeignKeyIssues(schema, t, constraint) ==
    IF \A i \in 1..Len(schema.tables) :
           schema.tables[i].name # constraint.referenced_table
    THEN <<ValidationIssue("error", t.name, None, constraint.name,
                           "INVALID_FK_TABLE")>>
    ELSE
      LET ref_table == TableMap(schema, constraint.referenced_table)
          referenced == constraint.referenced_columns
          checked == constraint.columns # <<>> /\ referenced # <<>>
          local_col == IF checked
                       THEN FirstColumn(t, constraint.columns[1])
                       ELSE <<>>
          ref_col == IF checked
                     THEN FirstColumn(ref_table, referenced[1])
                     ELSE <<>>
      IN  Flatten([k \in 1..Len(referenced) |->
              IF ~column_exists(ref_table, referenced[k])
              THEN <<ValidationIssue("error", t.name, None, constraint.name,
                                     "INVALID_FK_COLUMN")>>
              ELSE <<>>])
          \o
          (IF /\ local_col # <<>>
              /\ ref_col # <<>>
              /\ local_col[1].sql_type # ref_col[1].sql_type
           THEN <<ValidationIssue("warning", t.name, None, constraint.name,
                                  "FK_TYPE_MISMATCH")>>
           ELSE <<>>)

\* DSDValidator._validate_foreign_key_references
validate_foreign_key_references(schema) ==
    Flatten([i \in 1..Len(schema.tables) |->
        LET t == schema.tables[i]
            fks == SelectSeq(t.constraints, LAMBDA c : c.type = "FOREIGN KEY")
        IN  Flatten([c \in 1..Len(fks) |-> ForeignKeyIssues(schema, t, fks[c])])])

\* The distinct elements of a list, by first occurrence.
Distinct(s) ==
    LET first == {i \in 1..Len(s) : \A j \in 1..(i - 1) : s[j] # s[i]}
    IN  [k \in 1..Cardinality(first) |->
            s[CHOOSE i \in first : Cardinality({j \in first : j < i}) = k - 1]]

\* The column count above which _check_for_best_practices warns.
TooManyColumns == 50

\* DSDValidator._check_for_best_practices, the issues of one table.
TableBestPractices(t) ==
    LET names == {t.columns[i].name : i \in 1..Len(t.columns)}
        fks == SelectSeq(t.constraints, LAMBDA c : c.type = "FOREIGN KEY")
        fk_columns == Distinct(Flatten([c \in 1..Len(fks) |-> fks[c].columns]))
        indexed_columns ==
            {t.indexes[i].columns[1] :
                i \in {i \in 1..Len(t.indexes) : Len(t.indexes[i].columns) = 1}}
    IN  (IF names \cap {"created_at", "created", "date_created"} = {}
         THEN <<ValidationIssue("info", t.name, None, None,
                                "MISSING_CREATED_AT")>>
         ELSE <<>>)
        \o
        (IF names \cap {"updated_at", "updated", "date_updated"} = {}
         THEN <<ValidationIssue("info", t.name, None, None,
                                "MISSING_UPDATED_AT")>>
         ELSE <<>>)
        \o
        (IF Len(t.columns) > TooManyColumns
         THEN <<ValidationIssue("warning", t.name, None, None,
                                "TOO_MANY_COLUMNS")>>
         ELSE <<>>)
        \o
        Flatten([k \in 1..Len(fk_columns) |->
            IF fk_columns[k] \notin indexed_columns
            THEN <<ValidationIssue("info", t.name, fk_columns[k], None,
                                   "FK_WITHOUT_INDEX")>>
            ELSE <<>>])

\* DSDValidator._check_for_best_practices
check_for_best_practices(schema) ==
    Flatten([i \in 1..Len(schema.tables) |-> TableBestPractices(schema.tables[i])])

\* DSDValidator.validate.  The issues that come from iterating a Python set
\* (duplicate names, FK columns) are listed in order of first occurrence.
validate(schema) ==
    LET issues == validate_tables(schema) \o validate_columns(schema)
                  \o validate_constraints(schema)
                  \o validate_foreign_key_references(schema)
                  \o check_for_best_practices(schema)
        errors == SelectSeq(issues, LAMBDA i : i.severity = "error")
        warnings == SelectSeq(issues, LAMBDA i : i.severity = "warning")
        infos == SelectSeq(issues, LAMBDA i : i.severity = "info")
    IN  [valid |-> Len(errors) = 0, issues |-> issues, errors |-> Len(errors),
         warnings |-> Len(warnings), infos |-> Len(infos)]

\* The values the variables of the part not exercised hold.
NoCall == [op |-> "none"]
NoErd == [entities |-> <<>>, relationships |-> <<>>]
NoDsd == DSDSchema("database", "postgresql")
NoTable == [name |-> "R", columns |-> <<>>, constraints |-> <<>>]

(***************************************************************************)
(* Inputs of the normalization calls.                                      *)
(***************************************************************************)

\* The FDs a caller can hand in: non-empty sides (parse_fd_list drops the
\* others), bounded in size.
InputFds ==
    {FunctionalDependency(det, dep) :
        det \in {S \in SUBSET Attrs : Cardinality(S) \in 1..MaxDet},
        dep \in {S \in SUBSET Attrs : Cardinality(S) \in 1..MaxDep}}

InitNorm ==
    /\ \E n \in MinCols..NumAttrs :
          table = [name |-> "R",
                   columns |-> [i \in 1..n |-> AttrNames[i]],
                   constraints |-> <<>>]
    /\ fds = <<>>
    /\ ret = NoCall
    /\ erd = NoErd
    /\ dsd = NoDsd

\* parse_fd_list: one more {determinant, dependent} entry is appended.
ParseFd(det, dep) ==
    /\ ret = NoCall
    /\ Len(fds) < MaxFds
    /\ det # {} /\ dep # {}
    /\ fds' = Append(fds, FunctionalDependency(det, dep))
    /\ UNCHANGED <<table, ret, erd, dsd>>

\* A call compute_closure(X, fds).
CallClosure(X) ==
    /\ ret = NoCall
    /\ ret' = [op |-> "compute_closure", attributes |-> X,
               result |-> compute_closure(X, fds)]
    /\ UNCHANGED <<table, fds, erd, dsd>>

\* check_normalization_level(table, fds): violations per FD and the keys.
CallCheckLevel ==
    /\ ret = NoCall
    /\ \E all_attrs \in {get_column_names(table)},
          relevant_fds \in {RelevantFds(table, fds)} :
           ret' = [op |-> "check_normalization_level",
                   relevant |-> relevant_fds,
                   bcnf_violations |->
                       SelectSeq(relevant_fds,
                           LAMBDA fd : is_bcnf_violation(fd, all_attrs, relevant_fds)),
                   tnf_violations |->
                       SelectSeq(relevant_fds,
                           LAMBDA fd : is_3nf_violation(fd, all_attrs, relevant_fds)),
                   candidate_keys |-> find_candidate_keys(all_attrs, relevant_fds)]
    /\ UNCHANGED <<table, fds, erd, dsd>>

\* A call find_candidate_keys(all_attrs, relevant_fds), as decompose and
\* check_normalization_level make it.
CallFindCandidateKeys ==
    /\ ret = NoCall
    /\ \E all_attrs \in {get_column_names(table)},
          relevant_fds \in {RelevantFds(table, fds)} :
           ret' = [op |-> "find_candidate_keys",
                   all_attributes |-> all_attrs, relevant |-> relevant_fds,
                   result |-> find_candidate_keys(all_attrs, relevant_fds)]
    /\ UNCHANGED <<table, fds, erd, dsd>>

\* The call is_3nf_violation(fd, all_attrs, relevant_fds) that
\* check_normalization_level makes for the i-th relevant FD.
CallIs3nfViolation(i) ==
    /\ ret = NoCall
    /\ i \in 1..Len(RelevantFds(table, fds))
    /\ \E all_attrs \in {get_column_names(table)},
          relevant_fds \in {RelevantFds(table, fds)} :
           ret' = [op |-> "is_3nf_violation", fd |-> relevant_fds[i],
                   all_attributes |-> all_attrs, relevant |-> relevant_fds,
                   result |-> is_3nf_violation(relevant_fds[i], all_attrs,
                                               relevant_fds)]
    /\ UNCHANGED <<table, fds, erd, dsd>>

\* A call BCNFDecomposer().decompose(table, fds).
CallBcnfDecompose ==
    /\ ret = NoCall
    /\ \E res \in {BCNF_decompose(table, fds)} :
           ret' = [op |-> "BCNFDecomposer.decompose",
                   relevant |-> RelevantFds(table, fds),
                   result |-> res.tables, fdsOf |-> res.fdsOf,
                   changes |-> res.changes, splits |-> res.splits]
    /\ UNCHANGED <<table, fds, erd, dsd>>

\* A call ThreeNFDecomposer().decompose(table, fds), its sets iterated in ord.
Call3nfDecompose(ord) ==
    /\ ret = NoCall
    /\ \E res \in {ThreeNF_decompose(table, fds, ord)} :
           ret' = [op |-> "ThreeNFDecomposer.decompose",
                   relevant |-> RelevantFds(table, fds),
                   result |-> res.tables, changes |-> res.changes,
                   minimal_cover |-> res.minimal_cover,
                   before_removal |-> res.before_removal]
    /\ UNCHANGED <<table, fds, erd, dsd>>

NextNorm ==
    \/ \E fd \in InputFds : ParseFd(fd.determinant, fd.dependent)
    \/ \E X \in SUBSET Attrs : CallClosure(X)
    \/ CallCheckLevel
    \/ CallFindCandidateKeys
    \/ \E i \in 1..MaxFds : CallIs3nfViolation(i)
    \/ CallBcnfDecompose

SpecNorm == InitNorm /\ [][NextNorm]_vars

\* The 3NF synthesis on the same inputs.
Next3nf ==
    \/ \E fd \in InputFds : ParseFd(fd.determinant, fd.dependent)
    \/ \E ord \in Orders(get_column_names(table)) : Call3nfDecompose(ord)

Spec3nf == InitNorm /\ [][Next3nf]_vars

(***************************************************************************)
(* Inputs of the ERD transformation.                                       *)
(***************************************************************************)

MaxEntities      == 2   \* most entities of an ERD
MaxAttributes    == 2   \* most attributes of an entity
MaxRelationships == 1   \* most relationships of an ERD

EntityNames == {"users", "posts"}

Attribute(name, type, primary_key) ==
    [name |-> name, type |-> type, primary_key |-> primary_key,
     unique |-> FALSE, nullable |-> TRUE, auto_increment |-> FALSE]

\* The attributes an entity is made of: Integer and String keys named id or
\* not, and a plain column.
ErdAttributes ==
    {Attribute("id", "Integer", TRUE), Attribute("id", "String", TRUE),
     Attribute("ref", "Integer", TRUE), Attribute("ref", "String", FALSE)}

SeqsUpTo(S, n) == UNION {[1..k -> S] : k \in 0..n}

ErdEntities ==
    {[name |-> n, attributes |-> attrs] :
        n \in EntityNames, attrs \in SeqsUpTo(ErdAttributes, MaxAttributes)}

AttributeRefs == {Absent, "id", "ref"}

\* Relationships between the named entities; the ones that make a foreign key
\* may name its two columns, an N:M one may name its junction table.
ErdRelationships ==
    {[type |-> ty, from_entity |-> f, to_entity |-> t, from_attribute |-> fa,
      to_attribute |-> ta, junction_table |-> Absent, on_delete |-> Absent,
      on_update |-> Absent] :
        ty \in {"1:N", "N:1", "1:1"}, f \in EntityNames, t \in EntityNames,
        fa \in AttributeRefs, ta \in AttributeRefs}
    \cup
    {[type |-> "N:M", from_entity |-> f, to_entity |-> t,
      from_attribute |-> Absent, to_attribute |-> Absent, junction_table |-> j,
      on_delete |-> Absent, on_update |-> Absent] :
        f \in EntityNames, t \in EntityNames, j \in {Absent, "enrollments"}}

\* transform, before its loops: an empty schema in the transformer's dialect.
InitErd ==
    /\ erd = NoErd
    /\ \E dialect \in Dialects :
          dsd = [DSDSchema("database", dialect) EXCEPT !.description = ""]
    /\ ret = NoCall
    /\ table = NoTable
    /\ fds = <<>>

\* transform, one round of its loop over the entities.
TransformEntity(entity) ==
    /\ erd.relationships = <<>>
    /\ Len(erd.entities) < MaxEntities
    /\ erd' = [erd EXCEPT !.entities = Append(@, entity)]
    /\ dsd' = [dsd EXCEPT !.tables =
                  Append(@, transform_entity_to_table(dsd.dialect, entity))]
    /\ ret' = [op |-> "_transform_entity_to_table", before |-> dsd]
    /\ UNCHANGED <<table, fds>>

\* transform, one round of its loop over the relationships.
ProcessRelationship(relationship) ==
    /\ Len(erd.relationships) < MaxRelationships
    /\ erd' = [erd EXCEPT !.relationships = Append(@, relationship)]
    /\ dsd' = process_relationship(relationship, dsd)
    /\ ret' = [op |-> "_process_relationship", relationship |-> relationship,
               before |-> dsd]
    /\ UNCHANGED <<table, fds>>

NextErd ==
    \/ \E entity \in ErdEntities : TransformEntity(entity)
    \/ \E relationship \in ErdRelationships : ProcessRelationship(relationship)

SpecErd == InitErd /\ [][NextErd]_vars

(***************************************************************************)
(* Properties of the normalization engine.                                 *)
(***************************************************************************)

\* The candidate keys of a relation by definition: the minimal attribute
\* sets whose closure is the whole attribute set.
CandidateKeys(all_attributes, F) ==
    {K \in SUBSET all_attributes :
        /\ compute_closure(K, F) = all_attributes
        /\ \A S \in SUBSET K : S # K => compute_closure(S, F) # all_attributes}

\* The union of the PRIMARY KEY column sets of a list of tables.
UnionOfPks(tables) ==
    UNION {UNION {tables[i].constraints[k].columns :
                    k \in {k \in 1..Len(tables[i].constraints) :
                             tables[i].constraints[k].type = "PRIMARY KEY"}} :
             i \in 1..Len(tables)}

NonTrivial(fd) == ~(fd.dependent \subseteq fd.determinant)

\* C1: compute_closure(X, F) contains X, and closing the result again under
\* the same F returns the same set.
C1_ClosureExtensiveIdempotent ==
    ret.op = "compute_closure" =>
        /\ ret.attributes \subseteq ret.result
        /\ compute_closure(ret.result, fds) = ret.result

\* C1 witness: a closure that needed a second pass over the FD list.
C1_Witness ==
    /\ ret.op = "compute_closure"
    /\ ret.result # ClosurePass(ret.attributes, fds, 1)

\* C2: in every fragment T returned by BCNFDecomposer.decompose, every
\* non-trivial input FD whose attributes all lie in T has a determinant whose
\* closure, under the FDs projected onto T, is T's whole column set.
C2_BcnfFragmentsHaveNoViolation ==
    ret.op = "BCNFDecomposer.decompose" =>
        \A i \in 1..Len(ret.result) : \A j \in 1..Len(fds) :
            (/\ fds[j].determinant \cup fds[j].dependent
                    \subseteq get_column_names(ret.result[i])
             /\ NonTrivial(fds[j]))
            => compute_closure(fds[j].determinant, ret.fdsOf[i])
                   = get_column_names(ret.result[i])

\* C2 witness: a table was split and a fragment holds a non-trivial input FD.
C2_Witness ==
    /\ ret.op = "BCNFDecomposer.decompose"
    /\ Len(ret.result) >= 3
    /\ \E i \in 1..Len(ret.result) : \E j \in 1..Len(fds) :
          /\ fds[j].determinant \cup fds[j].dependent
                 \subseteq get_column_names(ret.result[i])
          /\ NonTrivial(fds[j])

\* C3 as stated: the union of the fragments' primary keys, closed under the
\* original FDs, equals the column set of the original table, also when the
\* minimal cover is empty and the input table is returned as is.
C3_Original ==
    ret.op = "ThreeNFDecomposer.decompose" =>
        compute_closure(UnionOfPks(ret.result), fds) = get_column_names(table)

\* C3 amended: when the minimal cover is not empty, the union of the
\* fragments' primary keys, closed under the original FDs, contains every
\* column of the original table, and closed under the FDs that lie within the
\* table it equals the table's column set; when the minimal cover is empty
\* the input table is returned unchanged.
C3_PkClosureRecoversColumns ==
    ret.op = "ThreeNFDecomposer.decompose" =>
        IF Len(ret.minimal_cover) = 0
        THEN ret.result = <<table>>
        ELSE /\ get_column_names(table)
                    \subseteq compute_closure(UnionOfPks(ret.result), fds)
             /\ compute_closure(UnionOfPks(ret.result), ret.relevant)
                    = get_column_names(table)

\* C3 witness: a synthesis with a non-empty cover for which the key-only
\* table was needed.
C3_Witness ==
    /\ ret.op = "ThreeNFDecomposer.decompose"
    /\ Len(ret.minimal_cover) > 0
    /\ \E i \in 1..Len(ret.result) : ret.result[i].name = "R_key"

\* C4: after the key-table step and the removal of redundant tables, some
\* returned fragment's column set contains a candidate key of the original
\* relation.
C4_SomeFragmentHoldsAKey ==
    ret.op = "ThreeNFDecomposer.decompose" =>
        \E i \in 1..Len(ret.result) :
            \E K \in CandidateKeys(get_column_names(table), ret.relevant) :
                K \subseteq get_column_names(ret.result[i])

\* C4 witness: the key-only table was added and a redundant table removed.
C4_Witness ==
    /\ ret.op = "ThreeNFDecomposer.decompose"
    /\ Len(ret.before_removal) > Len(ret.result)
    /\ \E i \in 1..Len(ret.before_removal) : ret.before_removal[i].name = "R_key"

\* C5: find_candidate_keys returns exactly the candidate keys: K is in the
\* result iff closure(K) is all_attributes and no proper subset of K has
\* that property.
C5_FindsAllCandidateKeys ==
    ret.op = "find_candidate_keys" =>
        ret.result = CandidateKeys(ret.all_attributes, ret.relevant)

\* C6: is_3nf_violation is true iff the FD is non-trivial, its determinant is
\* not a superkey and some attribute of (dependent minus determinant) is in
\* no candidate key.
C6_3nfViolationUsesAllKeys ==
    ret.op = "is_3nf_violation" =>
        (ret.result <=>
            /\ NonTrivial(ret.fd)
            /\ compute_closure(ret.fd.determinant, ret.relevant) # ret.all_attributes
            /\ \E attr \in ret.fd.dependent \ ret.fd.determinant :
                  attr \notin UNION CandidateKeys(ret.all_attributes, ret.relevant))

(***************************************************************************)
(* Properties of the ERD -> DSD transformation.                            *)
(***************************************************************************)

\* The first table of that name in a schema.
TableNamed(schema, name) == schema.tables[find_table(schema, name)]

HasTable(schema, name) == find_table(schema, name) # 0

ForeignKeys(t) == SelectSeq(t.constraints, LAMBDA c : c.type = "FOREIGN KEY")

PrimaryKeys(t) == SelectSeq(t.constraints, LAMBDA c : c.type = "PRIMARY KEY")

ColumnsNamed(t, name) == SelectSeq(t.columns, LAMBDA c : c.name = name)

\* The state right after transform has processed a relationship of type ty.
Processed(ty) ==
    /\ ret.op = "_process_relationship"
    /\ Get(ret.relationship, "type", "1:N") = ty

\* The entities of the ERD carry no error of their own: pairwise distinct
\* names, attribute names unique within an entity, and no entity besides
\* `except` without attributes.
EntitiesWellFormed(except) ==
    /\ \A i, j \in 1..Len(erd.entities) :
          i # j => erd.entities[i].name # erd.entities[j].name
    /\ \A i \in 1..Len(erd.entities) :
          LET attrs == erd.entities[i].attributes
          IN  /\ \A k, l \in 1..Len(attrs) : k # l => attrs[k].name # attrs[l].name
              /\ erd.entities[i].name # except => attrs # <<>>

\* The 1:N case of C7: the relationship is the only one of the ERD, P and C
\* exist, P's primary key is the single Integer attribute from_attribute
\* names, and the FK column is not yet a column of C.
OneToManyScenario ==
    /\ Processed("1:N")
    /\ LET r == ret.relationship
           a == Get(r, "to_attribute", r.from_entity \o "_id")
       IN  /\ erd.relationships = <<r>>
           /\ EntitiesWellFormed(r.to_entity)
           /\ HasTable(ret.before, r.from_entity)
           /\ HasTable(ret.before, r.to_entity)
           /\ r.from_attribute # Absent
           /\ \E i \in 1..Len(erd.entities) :
                 /\ erd.entities[i].name = r.from_entity
                 /\ LET pk == SelectSeq(erd.entities[i].attributes,
                                        LAMBDA attr : attr.primary_key)
                    IN  /\ Len(pk) = 1
                        /\ pk[1].name = r.from_attribute
                        /\ pk[1].type = "Integer"
           /\ ~column_exists(TableNamed(ret.before, r.to_entity), a)

\* C7: for a 1:N relationship from an existing entity P, whose primary key is
\* the Integer attribute named by from_attribute, to an existing entity C that
\* has no column a = to_attribute yet, in an ERD with no other relationship
\* and whose entities carry no error of their own (distinct names, distinct
\* attribute names), the DSD has in table C one new column a, INTEGER and
\* NOT NULL, exactly one FOREIGN KEY constraint, named fk_{C}_{P}, on [a] and
\* referencing P(from_attribute), and an index on [a]; and validate reports
\* no error.
C7_OneToManyAddsColumnFkIndex ==
    OneToManyScenario =>
        LET r == ret.relationship
            a == Get(r, "to_attribute", r.from_entity \o "_id")
            C == TableNamed(dsd, r.to_entity)
            C0 == TableNamed(ret.before, r.to_entity)
        IN  /\ Len(C.columns) = Len(C0.columns) + 1
            /\ Len(ColumnsNamed(C, a)) = 1
            /\ ColumnsNamed(C, a)[1].sql_type = "INTEGER"
            /\ ~ColumnsNamed(C, a)[1].nullable
            /\ Len(ForeignKeys(C)) = 1
            /\ ForeignKeys(C)[1].name = "fk_" \o r.to_entity \o "_" \o r.from_entity
            /\ ForeignKeys(C)[1].columns = <<a>>
            /\ ForeignKeys(C)[1].referenced_table = r.from_entity
            /\ ForeignKeys(C)[1].referenced_columns = <<r.from_attribute>>
            /\ \E i \in 1..Len(C.indexes) : C.indexes[i].columns = <<a>>
            /\ validate(dsd).errors = 0

\* C7 witness: the scenario between two different entities, in MySQL, where
\* the key column is INT and the new column INTEGER.
C7_Witness ==
    /\ OneToManyScenario
    /\ ret.relationship.from_entity # ret.relationship.to_entity
    /\ dsd.dialect = "mysql"
    /\ validate(dsd).warnings > 0

\* C8: for every 1:N relationship between two existing entities, given a
\* from_attribute or not, the FOREIGN KEY constraint added to the many-side
\* table has as referenced_columns the columns of the one-side table's
\* PRIMARY KEY constraint.
C8_FkReferencesPrimaryKey ==
    (/\ Processed("1:N")
     /\ HasTable(ret.before, ret.relationship.from_entity)
     /\ HasTable(ret.before, ret.relationship.to_entity)
     /\ Len(PrimaryKeys(TableNamed(dsd, ret.relationship.from_entity))) = 1)
    => LET many == TableNamed(dsd, ret.relationship.to_entity)
           one == TableNamed(dsd, ret.relationship.from_entity)
       IN  many.constraints[Len(many.constraints)].referenced_columns
               = PrimaryKeys(one)[1].columns

\* C9: an N:M relationship between A and B appends exactly one table, named
\* by junction_table, else {A}_{B}, and changes no other table; the junction
\* table has exactly the two INTEGER NOT NULL columns {A}_id and {B}_id,
\* exactly one PRIMARY KEY constraint, over both columns, and exactly two
\* FOREIGN KEY constraints, on_delete CASCADE, one to A(id) and one to B(id);
\* an ERD of two entities and one N:M relationship yields 3 tables.
C9_ManyToManyJunction ==
    Processed("N:M") =>
        LET r == ret.relationship
            A == r.from_entity
            B == r.to_entity
            n == Len(ret.before.tables)
            J == dsd.tables[Len(dsd.tables)]
        IN  /\ Len(dsd.tables) = n + 1
            /\ SubSeq(dsd.tables, 1, n) = ret.before.tables
            /\ J.name = (IF r.junction_table = Absent
                         THEN A \o "_" \o B ELSE r.junction_table)
            /\ Len(J.columns) = 2
            /\ J.columns[1].name = A \o "_id"
            /\ J.columns[2].name = B \o "_id"
            /\ \A i \in 1..2 : J.columns[i].sql_type = "INTEGER"
                               /\ ~J.columns[i].nullable
            /\ Len(PrimaryKeys(J)) = 1
            /\ PrimaryKeys(J)[1].columns = <<A \o "_id", B \o "_id">>
            /\ Len(ForeignKeys(J)) = 2
            /\ \A i \in 1..2 : ForeignKeys(J)[i].on_delete = "CASCADE"
            /\ ForeignKeys(J)[1].columns = <<A \o "_id">>
            /\ ForeignKeys(J)[1].referenced_table = A
            /\ ForeignKeys(J)[1].referenced_columns = <<"id">>
            /\ ForeignKeys(J)[2].columns = <<B \o "_id">>
            /\ ForeignKeys(J)[2].referenced_table = B
            /\ ForeignKeys(J)[2].referenced_columns = <<"id">>
            /\ Len(J.constraints) = 3
            /\ (Len(erd.entities) = 2 /\ Len(erd.relationships) = 1
                    => Len(dsd.tables) = 3)

\* C9 witness: two different entities joined by a named junction table.
C9_Witness ==
    /\ Processed("N:M")
    /\ Len(erd.entities) = 2
    /\ ret.relationship.from_entity # ret.relationship.to_entity
    /\ HasTable(ret.before, ret.relationship.from_entity)
    /\ HasTable(ret.before, ret.relationship.to_entity)
    /\ dsd.tables[3].name = "enrollments"

\* The 1:N relationship that C10 sets against an N:1 one: the entities and
\* the attributes swapped, an omitted attribute still omitted.
Mirror(r) ==
    [r EXCEPT !.type = "1:N",
              !.from_entity = r.to_entity, !.to_entity = r.from_entity,
              !.from_attribute = r.to_attribute, !.to_attribute = r.from_attribute]

\* C10: processing an N:1 relationship (A, B, from_attribute f, to_attribute
\* t, each possibly omitted) gives the same DSD as processing the 1:N
\* relationship (B, A, from_attribute t, to_attribute f) on the same starting
\* DSD; when table A exists the foreign key and the index are added to it and
\* reference table B, and every other table is left as it was.
C10_ManyToOneIsMirroredOneToMany ==
    Processed("N:1") =>
        LET r == ret.relationship
            ai == find_table(ret.before, r.from_entity)
        IN  /\ dsd = process_relationship(Mirror(r), ret.before)
            /\ ai # 0 =>
                 LET A0 == ret.before.tables[ai]
                     A == dsd.tables[ai]
                 IN  /\ Len(A.constraints) = Len(A0.constraints) + 1
                     /\ A.constraints[Len(A.constraints)].type = "FOREIGN KEY"
                     /\ A.constraints[Len(A.constraints)].referenced_table
                            = r.to_entity
                     /\ Len(A.indexes) = Len(A0.indexes) + 1
                     /\ \E i \in 1..Len(A.columns) :
                           <<A.columns[i].name>>
                               = A.constraints[Len(A.constraints)].columns
                     /\ \A i \in 1..Len(dsd.tables) :
                           i # ai => dsd.tables[i] = ret.before.tables[i]
            /\ ai = 0 => dsd = ret.before

\* C10 witness: an N:1 relationship between two different existing entities
\* that names neither attribute, so both defaults are used and the column
\* {B}_id is added to A.
C10_Witness ==
    /\ Processed("N:1")
    /\ ret.relationship.from_attribute = Absent
    /\ ret.relationship.to_attribute = Absent
    /\ ret.relationship.from_entity # ret.relationship.to_entity
    /\ HasTable(ret.before, ret.relationship.from_entity)
    /\ HasTable(ret.before, ret.relationship.to_entity)
    /\ column_exists(TableNamed(dsd, ret.relationship.from_entity),
                     ret.relationship.to_entity \o "_id")

(***************************************************************************)
(* Entities with every combination of attribute flags.                     *)
(***************************************************************************)

MaxFlaggedAttributes == 3   \* most attributes of such an entity

\* Attributes with each of primary_key, unique and nullable set or not.
FlaggedAttributes ==
    {[name |-> n, type |-> ty, primary_key |-> pk, unique |-> uq, nullable |-> nl,
      auto_increment |-> FALSE] :
        n \in {"id", "ref"}, ty \in {"Integer", "String"},
        pk \in BOOLEAN, uq \in BOOLEAN, nl \in BOOLEAN}

FlaggedEntities ==
    {[name |-> "users", attributes |-> attrs] :
        attrs \in SeqsUpTo(FlaggedAttributes, MaxFlaggedAttributes)}

\* transform of an ERD of one entity and no relationship.
NextEntity ==
    /\ erd.entities = <<>>
    /\ \E entity \in FlaggedEntities : TransformEntity(entity)

SpecEntity == InitErd /\ [][NextEntity]_vars

\* The names of a list of attributes or columns.
AttributeNames(attrs) == [i \in 1..Len(attrs) |-> attrs[i].name]

PkAttributes(entity) == SelectSeq(entity.attributes, LAMBDA a : a.primary_key)

UniqueAttributes(entity) ==
    SelectSeq(entity.attributes, LAMBDA a : a.unique /\ ~a.primary_key)

UniqueConstraints(t) == SelectSeq(t.constraints, LAMBDA c : c.type = "UNIQUE")

\* C11: for every entity, transform produces one table with one column per
\* attribute, in attribute order; the column of an attribute flagged
\* primary_key has nullable = false whatever the attribute's nullable flag;
\* the table has exactly one PRIMARY KEY constraint, listing the PK-flagged
\* attributes in order, when there is one, and none otherwise; and it has
\* exactly one UNIQUE constraint per attribute that is unique and not
\* primary_key.
C11_EntityBecomesTable ==
    erd.relationships = <<>> =>
        /\ Len(dsd.tables) = Len(erd.entities)
        /\ \A e \in 1..Len(erd.entities) :
              LET entity == erd.entities[e]
                  t == dsd.tables[e]
              IN  /\ t.name = entity.name
                  /\ AttributeNames(t.columns) = AttributeNames(entity.attributes)
                  /\ \A i \in 1..Len(entity.attributes) :
                        entity.attributes[i].primary_key => ~t.columns[i].nullable
                  /\ IF PkAttributes(entity) = <<>>
                     THEN PrimaryKeys(t) = <<>>
                     ELSE /\ Len(PrimaryKeys(t)) = 1
                          /\ PrimaryKeys(t)[1].columns
                                 = AttributeNames(PkAttributes(entity))
                  /\ Len(UniqueConstraints(t)) = Len(UniqueAttributes(entity))
                  /\ \A i \in 1..Len(UniqueConstraints(t)) :
                        UniqueConstraints(t)[i].columns
                            = <<UniqueAttributes(entity)[i].name>>

\* C11 witness: a composite key one of whose attributes is flagged nullable,
\* next to a unique attribute that is no key.
C11_Witness ==
    /\ ret.op = "_transform_entity_to_table"
    /\ Len(erd.entities) = 1
    /\ Len(PkAttributes(erd.entities[1])) = 2
    /\ \E i \in 1..2 : PkAttributes(erd.entities[1])[i].nullable
    /\ Len(UniqueAttributes(erd.entities[1])) = 1
    /\ Len(dsd.tables[1].constraints) = 2

(***************************************************************************)
(* sql_formatter.py: the SQL script of a schema.  The script is the list   *)
(* of its statements in order; a statement carries the lines it is made of *)
(* and, beside them, which branch of the formatter wrote it and for which  *)
(* table.                                                                  *)
(***************************************************************************)

\* Python truthiness of an Optional[str].
Truthy(text) == text # None /\ text # ""

RECURSIVE Join(_, _)
Join(sep, parts) ==
    IF parts = <<>> THEN ""
    ELSE IF Len(parts) = 1 THEN parts[1]
    ELSE parts[1] \o sep \o Join(sep, Tail(parts))

\* The identifiers of the inputs that hold a space, and the ones that hold
\* no lowercase letter: every generated name starts with pk_, fk_, uq_ or
\* idx_, or ends with _id.
WithSpace == {"user id"}
NoLowercase == {"ID"}

\* identifier.upper() != identifier
upper_differs(identifier) == identifier \notin NoLowercase

\* self.dialect.upper()
dialect_upper(dialect) ==
    CASE dialect = "postgresql" -> "POSTGRESQL"
      [] dialect = "mysql" -> "MYSQL"
      [] dialect = "mssql" -> "MSSQL"
      [] dialect = "sqlite" -> "SQLITE"

\* 'INTEGER' in column.sql_type.upper(), over the SQL types of TYPE_MAPPINGS
\* and of the foreign key columns.
contains_INTEGER(sql_type) == sql_type \in {"INTEGER"}

\* The grave accent of the MySQL quoting, a character that a string of this
\* module cannot hold.
Backtick == "<grave accent>"

quote_identifier(dialect, identifier) ==
    CASE dialect = "postgresql" ->
            IF identifier \in WithSpace \/ upper_differs(identifier)
            THEN "\"" \o identifier \o "\"" ELSE identifier
      [] dialect = "mysql" -> Backtick \o identifier \o Backtick
      [] dialect = "mssql" -> "[" \o identifier \o "]"
      [] dialect = "sqlite" ->
            IF identifier \in WithSpace
            THEN "\"" \o identifier \o "\"" ELSE identifier
      [] OTHER -> identifier

QuoteAll(dialect, names) ==
    Join(", ", [i \in 1..Len(names) |-> quote_identifier(dialect, names[i])])

format_column(dialect, column) ==
    LET parts == <<quote_identifier(dialect, column.name), column.sql_type>>
                 \o (IF ~column.nullable THEN <<"NOT NULL">> ELSE <<>>)
        serial == <<parts[1], "SERIAL">>
        incremented ==
            IF ~column.auto_increment THEN parts
            ELSE CASE dialect = "postgresql" ->
                        IF contains_INTEGER(column.sql_type) THEN serial ELSE parts
                   [] dialect = "mysql" -> Append(parts, "AUTO_INCREMENT")
                   [] dialect = "mssql" -> Append(parts, "IDENTITY(1,1)")
                   [] OTHER -> parts
        defaulted ==
            IF Truthy(column.default_value)
            THEN Append(incremented, "DEFAULT " \o column.default_value)
            ELSE incremented
    IN  Join(" ", defaulted)

format_inline_constraint(dialect, constraint) ==
    LET constraint_name == quote_identifier(dialect, constraint.name)
        columns == QuoteAll(dialect, constraint.columns)
    IN  CASE constraint.type = "PRIMARY KEY" ->
                "CONSTRAINT " \o constraint_name \o " PRIMARY KEY (" \o columns \o ")"
          [] constraint.type = "UNIQUE" ->
                "CONSTRAINT " \o constraint_name \o " UNIQUE (" \o columns \o ")"
          [] OTHER -> ""

format_foreign_key_constraint(dialect, table_name, constraint) ==
    LET parts ==
            <<"ALTER TABLE " \o quote_identifier(dialect, table_name),
              "ADD CONSTRAINT " \o quote_identifier(dialect, constraint.name),
              "FOREIGN KEY (" \o QuoteAll(dialect, constraint.columns) \o ")",
              "REFERENCES " \o quote_identifier(dialect, constraint.referenced_table)
                  \o " (" \o QuoteAll(dialect, constraint.referenced_columns) \o ")">>
            \o (IF Truthy(constraint.on_delete)
                THEN <<"ON DELETE " \o constraint.on_delete>> ELSE <<>>)
            \o (IF Truthy(constraint.on_update)
                THEN <<"ON UPDATE " \o constraint.on_update>> ELSE <<>>)
    IN  Join(" ", parts) \o ";"

format_create_index(dialect, table_name, index) ==
    "CREATE " \o (IF index.unique THEN "UNIQUE " ELSE "") \o "INDEX "
        \o quote_identifier(dialect, index.name) \o " ON "
        \o quote_identifier(dialect, table_name)
        \o " (" \o QuoteAll(dialect, index.columns) \o ");"

Statement(kind, t, ref, lines) ==
    [kind |-> kind, table |-> t, ref |-> ref, lines |-> lines]

Comment(text) == Statement("comment", None, None, <<text>>)
Blank == Statement("blank", None, None, <<"">>)

\* ",\n".join(col_defs): every line but the last one ends with a comma.
CommaLines(col_defs) ==
    [i \in 1..Len(col_defs) |->
        IF i < Len(col_defs) THEN col_defs[i] \o "," ELSE col_defs[i]]

format_create_table(dialect, t) ==
    LET inline == SelectSeq(t.constraints,
                            LAMBDA c : c.type \in {"PRIMARY KEY", "UNIQUE"})
        col_defs ==
            [i \in 1..Len(t.columns) |-> "    " \o format_column(dialect, t.columns[i])]
            \o [i \in 1..Len(inline) |->
                    "    " \o format_inline_constraint(dialect, inline[i])]
        fk_constraints == SelectSeq(t.constraints, LAMBDA c : c.type = "FOREIGN KEY")
    IN  (IF Truthy(t.description) THEN <<Comment("-- " \o t.description)>> ELSE <<>>)
        \o <<Statement("CREATE TABLE", t.name, None,
                       <<"CREATE TABLE " \o quote_identifier(dialect, t.name) \o " (">>
                       \o CommaLines(col_defs) \o <<");">>)>>
        \o Flatten([i \in 1..Len(fk_constraints) |->
                <<Blank,
                  Statement("ALTER TABLE", t.name, fk_constraints[i].referenced_table,
                            <<format_foreign_key_constraint(dialect, t.name,
                                                            fk_constraints[i])>>)>>])

Reversed(seq) == [i \in 1..Len(seq) |-> seq[Len(seq) + 1 - i]]

format_schema(dialect, schema, include_drop) ==
    LET tables == schema.tables
        header ==
            <<Comment("-- Schema: " \o schema.name)>>
            \o (IF Truthy(schema.description)
                THEN <<Comment("-- " \o schema.description)>> ELSE <<>>)
            \o <<Comment("-- Generated for: " \o dialect_upper(dialect)), Blank>>
        drops ==
            IF include_drop
            THEN <<Comment("-- Drop tables (in reverse order to handle FK dependencies)")>>
                 \o [i \in 1..Len(tables) |->
                        Statement("DROP TABLE", Reversed(tables)[i].name, None,
                                  <<"DROP TABLE IF EXISTS "
                                    \o quote_identifier(dialect, Reversed(tables)[i].name)
                                    \o " CASCADE;">>)]
                 \o <<Blank>>
            ELSE <<>>
        creates ==
            <<Comment("-- Create tables")>>
            \o Flatten([i \in 1..Len(tables) |->
                    format_create_table(dialect, tables[i]) \o <<Blank>>])
        indexes ==
            IF \E i \in 1..Len(tables) : tables[i].indexes # <<>>
            THEN <<Comment("-- Create indexes")>>
                 \o Flatten([i \in 1..Len(tables) |->
                        [j \in 1..Len(tables[i].indexes) |->
                            Statement("CREATE INDEX", tables[i].name, None,
                                      <<format_create_index(dialect, tables[i].name,
                                                            tables[i].indexes[j])>>)]])
                 \o <<Blank>>
            ELSE <<>>
    IN  header \o drops \o creates \o indexes

(***************************************************************************)
(* transform_erd_to_sql: an ERD is transformed, then the script of its     *)
(* schema is generated in the same dialect.                                *)
(***************************************************************************)

SqlAttributes ==
    {Attribute("id", "Integer", TRUE),
     [Attribute("ID", "Integer", TRUE) EXCEPT !.auto_increment = TRUE],
     Attribute("user id", "String", FALSE)}

SqlEntities ==
    {[name |-> n, attributes |-> attrs] :
        n \in EntityNames, attrs \in SeqsUpTo(SqlAttributes, MaxAttributes)}

\* Relationships that leave the columns and the junction table to the defaults.
SqlRelationships ==
    {r \in ErdRelationships :
        /\ r.from_attribute = Absent
        /\ r.to_attribute = Absent
        /\ r.junction_table = Absent}

\* The transformation is still under way: neither the validator nor the
\* generator has been handed the schema.
Transforming == ret.op \notin {"validate", "format_schema"}

\* SQLScriptGenerator(dialect).generate_full_script(dsd, include_drop)
FormatSchema(include_drop) ==
    /\ Transforming
    /\ ret' = [op |-> "format_schema", include_drop |-> include_drop,
               script |-> format_schema(dsd.dialect, dsd, include_drop)]
    /\ UNCHANGED <<table, fds, erd, dsd>>

\* DSDValidator().validate(dsd)
Validate ==
    /\ Transforming
    /\ ret' = [op |-> "validate", result |-> validate(dsd)]
    /\ UNCHANGED <<table, fds, erd, dsd>>

NextSql ==
    \/ /\ Transforming
       /\ \E entity \in SqlEntities : TransformEntity(entity)
    \/ /\ Transforming
       /\ \E relationship \in SqlRelationships : ProcessRelationship(relationship)
    \/ Validate
    \/ \E include_drop \in BOOLEAN : FormatSchema(include_drop)

SpecSql == InitErd /\ [][NextSql]_vars

(***************************************************************************)
(* Properties of the SQL script.                                           *)
(***************************************************************************)

Formatted == ret.op = "format_schema"

StatementsOf(kind) == {i \in DOMAIN ret.script : ret.script[i].kind = kind}

\* C12: in the script of format_schema every ALTER TABLE ... FOREIGN KEY
\* statement comes after the CREATE TABLE statements of all the tables, so
\* that no foreign key is emitted before the table it references is created,
\* whatever the order of the tables.
C12_ForeignKeysAfterAllCreates ==
    Formatted =>
        \A i \in StatementsOf("ALTER TABLE") :
            /\ \A j \in StatementsOf("CREATE TABLE") : j < i
            /\ HasTable(dsd, ret.script[i].ref) =>
                  \E j \in StatementsOf("CREATE TABLE") :
                      j < i /\ ret.script[j].table = ret.script[i].ref

\* The lines of the CREATE TABLE statements of the script for table t.
CreateLines(t) ==
    UNION {Range(ret.script[i].lines) :
              i \in {j \in StatementsOf("CREATE TABLE") : ret.script[j].table = t}}

ColumnLines(text) == {"    " \o text, "    " \o text \o ","}

\* C13: for postgresql an identifier made of lowercase letters and
\* underscores only is emitted unquoted, so that the non-nullable column id of
\* type INTEGER is rendered as "id INTEGER NOT NULL", and an identifier that
\* holds a space is emitted between double quotes.
C13_PostgresqlQuoting ==
    (Formatted /\ dsd.dialect = "postgresql") =>
        \A i \in DOMAIN dsd.tables :
            LET t == dsd.tables[i] IN
            \A j \in DOMAIN t.columns :
                LET column == t.columns[j]
                    rest == " " \o column.sql_type
                            \o (IF column.nullable THEN "" ELSE " NOT NULL")
                IN  /\ (column.name = "id" /\ ~column.auto_increment) =>
                           ColumnLines("id" \o rest) \cap CreateLines(t.name) # {}
                    /\ (column.name \in WithSpace /\ ~column.auto_increment) =>
                           ColumnLines("\"" \o column.name \o "\"" \o rest)
                               \cap CreateLines(t.name) # {}

(***************************************************************************)
(* Properties of the validation result.                                    *)
(***************************************************************************)

Validated == ret.op = "validate"

IssuesOf(severity) ==
    {i \in DOMAIN ret.result.issues : ret.result.issues[i].severity = severity}

IssueCodes == {ret.result.issues[i].code : i \in DOMAIN ret.result.issues}

AdvisoryCodes ==
    {"MISSING_CREATED_AT", "MISSING_UPDATED_AT", "TOO_MANY_COLUMNS",
     "FK_WITHOUT_INDEX", "NO_PRIMARY_KEY"}

ConstraintViolation(type, t, constraint, severity) ==
    [type |-> type, table |-> t, constraint |-> constraint, severity |-> severity]

\* The violations of one foreign key of table t.
ForeignKeyViolations(schema, t, constraint) ==
    IF constraint.type # "FOREIGN KEY" THEN <<>>
    ELSE IF find_table(schema, constraint.referenced_table) = 0
    THEN <<ConstraintViolation("missing_referenced_table", t.name,
                               constraint.name, "error")>>
    ELSE LET ref_table == schema.tables[find_table(schema, constraint.referenced_table)]
             missing == SelectSeq(constraint.referenced_columns,
                                  LAMBDA ref_col : ~column_exists(ref_table, ref_col))
         IN  [i \in 1..Len(missing) |->
                 ConstraintViolation("missing_referenced_column", t.name,
                                     constraint.name, "error")]

analyze_dsd(schema) ==
    LET no_pk == SelectSeq(schema.tables,
                     LAMBDA t : ~\E i \in DOMAIN t.constraints :
                                    t.constraints[i].type = "PRIMARY KEY")
    IN  [i \in 1..Len(no_pk) |->
            ConstraintViolation("missing_primary_key", no_pk[i].name, None, "error")]
        \o Flatten([i \in 1..Len(schema.tables) |->
               Flatten([j \in 1..Len(schema.tables[i].constraints) |->
                   ForeignKeyViolations(schema, schema.tables[i],
                                        schema.tables[i].constraints[j])])])

(***************************************************************************)
(* Schemas handed to the analyzer: tables of a few columns with any list   *)
(* of primary key and foreign key constraints, several primary keys on one *)
(* table and references to a missing table or column included.             *)
(***************************************************************************)

MaxTables == 2
MaxConstraints == 2

ForeignKey(name, columns, referenced_table, referenced_columns) ==
    DSDConstraint(name, "FOREIGN KEY", columns, referenced_table,
                  referenced_columns, "RESTRICT", "RESTRICT")

AnalyzerConstraints ==
    {PlainConstraint("pk_id", "PRIMARY KEY", <<"id">>),
     PlainConstraint("pk_ref", "PRIMARY KEY", <<"ref">>),
     PlainConstraint("uq_ref", "UNIQUE", <<"ref">>),
     ForeignKey("fk_users", <<"ref">>, "users", <<"id">>),
     ForeignKey("fk_posts", <<"ref">>, "posts", <<"ref">>),
     ForeignKey("fk_orders", <<"ref">>, "orders", <<"id">>)}

AnalyzerColumns ==
    {<<DSDColumn("id", "INTEGER", FALSE, FALSE, "Integer")>>,
     <<DSDColumn("id", "INTEGER", FALSE, FALSE, "Integer"),
       DSDColumn("ref", "INTEGER", TRUE, FALSE, "Integer")>>}

AnalyzerTables ==
    {[DSDTable(n) EXCEPT !.columns = columns, !.constraints = constraints] :
        n \in EntityNames, columns \in AnalyzerColumns,
        constraints \in SeqsUpTo(AnalyzerConstraints, MaxConstraints)}

AnalyzerSchemas ==
    {[DSDSchema("database", "postgresql") EXCEPT !.tables = tables] :
        tables \in SeqsUpTo(AnalyzerTables, MaxTables)}

InitAnalyze ==
    /\ dsd \in AnalyzerSchemas
    /\ erd = NoErd
    /\ ret = NoCall
    /\ table = NoTable
    /\ fds = <<>>

\* ConstraintAnalyzer().analyze_dsd(dsd)
AnalyzeDsd ==
    /\ ret = NoCall
    /\ ret' = [op |-> "analyze_dsd", violations |-> analyze_dsd(dsd)]
    /\ UNCHANGED <<table, fds, erd, dsd>>

NextAnalyze == AnalyzeDsd

SpecAnalyze == InitAnalyze /\ [][NextAnalyze]_vars

NumPrimaryKeys(t) ==
    Cardinality({i \in DOMAIN t.constraints : t.constraints[i].type = "PRIMARY KEY"})

\* The number of violations that analyze_dsd returned for the primary key of
\* a table of the given name.
PrimaryKeyViolations(name) ==
    Cardinality({i \in DOMAIN ret.violations :
                    /\ ret.violations[i].type = "missing_primary_key"
                    /\ ret.violations[i].table = name})

\* C15: analyze_dsd returns a violation for every table that has no PRIMARY
\* KEY constraint and for every table that has more than one, and none on
\* that account for a table that has exactly one.
C15_ExactlyOnePrimaryKey ==
    ret.op = "analyze_dsd" =>
        \A name \in EntityNames :
            PrimaryKeyViolations(name) =
                Cardinality({i \in DOMAIN dsd.tables :
                                /\ dsd.tables[i].name = name
                                /\ NumPrimaryKeys(dsd.tables[i]) # 1})

(***************************************************************************)
(* constraint_mapper.py: ConstraintAnalyzer.analyze_erd and the depth      *)
(* first search of detect_circular_references, one step of the search per  *)
(* action.                                                                 *)
(***************************************************************************)

\* graph: its keys in insertion order, and the list graph[node].
GraphKeys(relationships) ==
    Distinct([i \in 1..Len(relationships) |-> relationships[i].from_entity])

Neighbors(relationships, node) ==
    LET from_node == SelectSeq(relationships, LAMBDA rel : rel.from_entity = node)
    IN  [i \in 1..Len(from_node) |-> from_node[i].to_entity]

\* list.index(x)
index(list, x) ==
    CHOOSE i \in 1..Len(list) : list[i] = x /\ \A j \in 1..(i - 1) : list[j] # x

\* The cycle that dfs appends for an already visited neighbor, as a list of
\* no or one cycle.
CycleAt_not_itself(rec_stack, neighbor) ==
    IF neighbor \in Range(rec_stack) /\ neighbor # rec_stack[Len(rec_stack)]
    THEN <<SubSeq(rec_stack, index(rec_stack, neighbor), Len(rec_stack))
           \o <<neighbor>>>>
    ELSE <<>>

CycleAt_whole_stack(rec_stack, neighbor) ==
    IF neighbor \in Range(rec_stack) THEN <<rec_stack \o <<neighbor>>>> ELSE <<>>

CycleAt(rec_stack, neighbor) ==
    IF neighbor \in Range(rec_stack)
    THEN <<SubSeq(rec_stack, index(rec_stack, neighbor), Len(rec_stack))
           \o <<neighbor>>>>
    ELSE <<>>

\* analyze_erd, the violations of the entities and of the relationship ends.
EntityViolations(entities) ==
    LET no_pk == SelectSeq(entities,
                     LAMBDA e : ~\E i \in DOMAIN e.attributes :
                                    e.attributes[i].primary_key)
    IN  [i \in 1..Len(no_pk) |->
            ConstraintViolation("missing_primary_key", no_pk[i].name, None, "error")]

RelationshipViolations(entities, relationships) ==
    LET entity_names == {entities[i].name : i \in DOMAIN entities}
        Missing(name) ==
            IF name \notin entity_names
            THEN <<ConstraintViolation("missing_referenced_table", name, None,
                                       "error")>>
            ELSE <<>>
    IN  Flatten([i \in 1..Len(relationships) |->
            Missing(relationships[i].from_entity)
            \o Missing(relationships[i].to_entity)])

CycleViolations(cycles) ==
    [i \in 1..Len(cycles) |->
        ConstraintViolation("circular_reference", cycles[i][1], None, "warning")]

(***************************************************************************)
(* ERDs handed to the analyzer: relationships between three entities in    *)
(* any order, self references and repeated relationships included.         *)
(***************************************************************************)

MaxEdges == 4

GraphNodes == {"users", "posts", "comments"}

GraphRelationships ==
    {[type |-> "1:N", from_entity |-> f, to_entity |-> t] :
        f \in GraphNodes, t \in GraphNodes}

GraphEntities ==
    {<<[name |-> "users", attributes |-> <<Attribute("id", "Integer", TRUE)>>],
       [name |-> "posts", attributes |-> <<Attribute("ref", "String", FALSE)>>]>>}

InitGraph ==
    /\ \E entities \in GraphEntities :
       \E relationships \in SeqsUpTo(GraphRelationships, MaxEdges) :
          erd = [entities |-> entities, relationships |-> relationships]
    /\ dsd = NoDsd
    /\ ret = NoCall
    /\ table = NoTable
    /\ fds = <<>>

\* analyze_erd up to the call of detect_circular_references, and that call
\* up to its loop over the nodes of the graph.
AnalyzeErd ==
    /\ ret = NoCall
    /\ ret' = [op |-> "analyze_erd", pc |-> "loop",
               violations |-> EntityViolations(erd.entities)
                              \o RelationshipViolations(erd.entities,
                                                        erd.relationships),
               node |-> None, visited |-> {}, rec_stack |-> <<>>,
               next |-> <<>>, cycles |-> <<>>]
    /\ UNCHANGED <<table, fds, erd, dsd>>

\* for node in graph: if node not in visited: dfs(node).  The first two
\* lines of dfs are part of the step that calls it.
CallDfs ==
    /\ ret.op = "analyze_erd" /\ ret.pc = "loop" /\ ret.rec_stack = <<>>
    /\ \E unvisited \in {SelectSeq(GraphKeys(erd.relationships),
                                   LAMBDA node : node \notin ret.visited)} :
          /\ unvisited # <<>>
          /\ ret' = [ret EXCEPT !.node = unvisited[1],
                                !.visited = @ \cup {unvisited[1]},
                                !.rec_stack = <<unvisited[1]>>,
                                !.next = <<1>>]
    /\ UNCHANGED <<table, fds, erd, dsd>>

\* dfs, one round of its loop over graph[node]: the recursive call, the
\* recorded cycle, or nothing for a finished neighbor.
VisitNeighbor ==
    /\ ret.op = "analyze_erd" /\ ret.pc = "loop" /\ ret.rec_stack # <<>>
    /\ LET depth == Len(ret.rec_stack)
           node == ret.rec_stack[depth]
           neighbors == Neighbors(erd.relationships, node)
       IN  /\ ret.next[depth] <= Len(neighbors)
           /\ LET neighbor == neighbors[ret.next[depth]]
                  advanced == [ret.next EXCEPT ![depth] = @ + 1]
              IN  ret' = IF neighbor \notin ret.visited
                         THEN [ret EXCEPT !.visited = @ \cup {neighbor},
                                          !.rec_stack = Append(@, neighbor),
                                          !.next = Append(advanced, 1)]
                         ELSE [ret EXCEPT !.next = advanced,
                                          !.cycles = @ \o CycleAt(ret.rec_stack,
                                                                  neighbor)]
    /\ UNCHANGED <<table, fds, erd, dsd>>

\* dfs, after its loop: rec_stack.pop() and the return to the caller.
ReturnDfs ==
    /\ ret.op = "analyze_erd" /\ ret.pc = "loop" /\ ret.rec_stack # <<>>
    /\ LET depth == Len(ret.rec_stack)
       IN  /\ ret.next[depth] >
                  Len(Neighbors(erd.relationships, ret.rec_stack[depth]))
           /\ ret' = [ret EXCEPT !.rec_stack = SubSeq(@, 1, depth - 1),
                                 !.next = SubSeq(@, 1, depth - 1)]
    /\ UNCHANGED <<table, fds, erd, dsd>>

\* detect_circular_references returns its cycles and analyze_erd appends a
\* warning for each of them.
ReturnAnalyzeErd ==
    /\ ret.op = "analyze_erd" /\ ret.pc = "loop" /\ ret.rec_stack = <<>>
    /\ \A i \in DOMAIN GraphKeys(erd.relationships) :
          GraphKeys(erd.relationships)[i] \in ret.visited
    /\ ret' = [ret EXCEPT !.pc = "done",
                          !.violations = @ \o CycleViolations(ret.cycles)]
    /\ UNCHANGED <<table, fds, erd, dsd>>

NextGraph ==
    \/ AnalyzeErd
    \/ CallDfs
    \/ VisitNeighbor
    \/ ReturnDfs
    \/ ReturnAnalyzeErd

SpecGraph == InitGraph /\ [][NextGraph]_vars

(***************************************************************************)
(* Properties of the cycle detection.                                      *)
(***************************************************************************)

\* The relationship graph: an edge from_entity -> to_entity per relationship.
Edges ==
    {<<erd.relationships[i].from_entity, erd.relationships[i].to_entity>> :
        i \in DOMAIN erd.relationships}

\* The nodes reached from the nodes of S along one edge or more, found by
\* following edges for n rounds.
RECURSIVE ReachedIn(_, _)
ReachedIn(S, n) ==
    LET after == {e[2] : e \in {d \in Edges : d[1] \in S}}
    IN  IF n = 0 THEN {} ELSE after \cup ReachedIn(after, n - 1)

HasDirectedCycle ==
    \E n \in GraphNodes : n \in ReachedIn({n}, Cardinality(GraphNodes))

Analyzed == ret.op = "analyze_erd" /\ ret.pc = "done"

CircularReferenceWarnings ==
    {i \in DOMAIN ret.violations :
        /\ ret.violations[i].type = "circular_reference"
        /\ ret.violations[i].severity = "warning"}

\* C16: detect_circular_references returns a non-empty list, and analyze_erd
\* emits at least one CIRCULAR_REFERENCE warning, exactly when the directed
\* graph of the relationships has a directed cycle, self-loops included.
C16_CyclesFoundIffGraphHasCycle ==
    Analyzed =>
        /\ ret.cycles # <<>> <=> HasDirectedCycle
        /\ CircularReferenceWarnings # {} <=> HasDirectedCycle

C16_Witness ==
    /\ Analyzed
    /\ CircularReferenceWarnings # {}
    /\ \E i \in DOMAIN ret.cycles : Len(ret.cycles[i]) = 2
    /\ \E i \in DOMAIN ret.cycles : Len(ret.cycles[i]) = 4

\* A list of nodes in which every node is followed by one of its successors.
IsDirectedPath(path) ==
    \A i \in 1..(Len(path) - 1) : <<path[i], path[i + 1]>> \in Edges

NoRepeat(path) ==
    \A i, j \in DOMAIN path : path[i] = path[j] => i = j

\* C17: every cycle that detect_circular_references records is a closed
\* directed path of the relationship graph: it ends where it starts, every
\* consecutive pair is a relationship, and no node but the closing one is
\* repeated; and at every step of the search the recursion stack is a
\* directed path from the node the search was started for to the current
\* node.
C17_CyclesAreClosedPaths ==
    ret.op = "analyze_erd" =>
        /\ \A i \in DOMAIN ret.cycles :
              LET cycle == ret.cycles[i]
              IN  /\ Len(cycle) >= 2
                  /\ cycle[1] = cycle[Len(cycle)]
                  /\ IsDirectedPath(cycle)
                  /\ NoRepeat(SubSeq(cycle, 1, Len(cycle) - 1))
        /\ ret.rec_stack # <<>> =>
              /\ ret.rec_stack[1] = ret.node
              /\ IsDirectedPath(ret.rec_stack)
              /\ NoRepeat(ret.rec_stack)
              /\ Range(ret.rec_stack) \subseteq ret.visited

C17_Witness ==
    /\ ret.op = "analyze_erd"
    /\ Len(ret.rec_stack) = 3
    /\ \E i \in DOMAIN ret.cycles :
          Len(ret.cycles[i]) = 3 /\ ret.cycles[i][1] # ret.node

(***************************************************************************)
(* algorithms.py: check_normalization_level and normalize_schema.  The     *)
(* result of normalize_schema is kept table by table beside its aggregated *)
(* lists, with the branch taken for each table.                            *)
(***************************************************************************)

check_normalization_level(t, F) ==
    LET all_attrs == get_column_names(t)
        relevant_fds == RelevantFds(t, F)
        bcnf_violations ==
            SelectSeq(relevant_fds,
                      LAMBDA fd : is_bcnf_violation(fd, all_attrs, relevant_fds))
        tnf_violations ==
            SelectSeq(relevant_fds,
                      LAMBDA fd : is_3nf_violation(fd, all_attrs, relevant_fds))
    IN  [is_bcnf |-> Len(bcnf_violations) = 0, is_3nf |-> Len(tnf_violations) = 0,
         bcnf_violations |-> bcnf_violations, tnf_violations |-> tnf_violations]

\* table_fds and adjusted_fds of normalize_schema.
AdjustedFds(t, F) ==
    LET table_attrs == get_column_names(t)
        table_fds ==
            SelectSeq(F, LAMBDA fd :
                /\ fd.determinant \subseteq table_attrs
                /\ \/ fd.dependent \subseteq table_attrs
                   \/ fd.dependent \cap table_attrs # {})
        kept ==
            SelectSeq(table_fds, LAMBDA fd :
                /\ fd.dependent \cap table_attrs # {}
                /\ ~(fd.dependent \cap table_attrs \subseteq fd.determinant))
    IN  [i \in 1..Len(kept) |->
            FunctionalDependency(kept[i].determinant,
                                 kept[i].dependent \cap table_attrs)]

\* The test that sends a table past the decomposer.
IsNormalized_bcnf_only(norm_check, normalization_type) == norm_check.is_bcnf

IsNormalized(norm_check, normalization_type) ==
    IF normalization_type = "BCNF" THEN norm_check.is_bcnf ELSE norm_check.is_3nf

\* The branch of the loop for a table that needs no decomposition.
KeepTable(t) ==
    [decomposer |-> None, tables |-> <<t>>, changes |-> <<>>, violations |-> <<>>]

\* The branch for a table with violations: what the decomposer returned and
\* the violations found, each with the name of the table.
DecomposeTable(t, decomposer, decomposed, found) ==
    [decomposer |-> decomposer, tables |-> decomposed.tables,
     changes |-> decomposed.changes,
     violations |-> [i \in 1..Len(found) |-> [table |-> t.name, fd |-> found[i]]]]

\* The loop body once the FDs are adjusted and the level is checked.
NormalizeChecked(t, adjusted_fds, norm_check, normalization_type, ord) ==
    IF IsNormalized(norm_check, normalization_type)
    THEN KeepTable(t)
    ELSE IF normalization_type = "BCNF"
    THEN DecomposeTable(t, "BCNFDecomposer", BCNF_decompose(t, adjusted_fds),
                        norm_check.bcnf_violations)
    ELSE DecomposeTable(t, "ThreeNFDecomposer",
                        ThreeNF_decompose(t, adjusted_fds, ord),
                        norm_check.tnf_violations)

NormalizeAdjusted(t, adjusted_fds, normalization_type, ord) ==
    NormalizeChecked(t, adjusted_fds, check_normalization_level(t, adjusted_fds),
                     normalization_type, ord)

\* One round of the loop of normalize_schema over original_tables.
NormalizeTable(t, F, normalization_type, ord) ==
    NormalizeAdjusted(t, AdjustedFds(t, F), normalization_type, ord)

\* The NormalizationResult made of the rounds of the loop.
NormalizationResult(original_tables, normalization_type, rounds) ==
    [success |-> TRUE,
     original_tables |-> original_tables,
     normalized_tables |-> Flatten([i \in 1..Len(rounds) |-> rounds[i].tables]),
     changes |-> Flatten([i \in 1..Len(rounds) |-> rounds[i].changes]),
     normalization_type |-> normalization_type,
     violations_found |-> Flatten([i \in 1..Len(rounds) |-> rounds[i].violations]),
     is_already_normalized |-> \A i \in 1..Len(rounds) : rounds[i].decomposer = None,
     rounds |-> rounds]

normalize_schema(schema, F, normalization_type, ord) ==
    NormalizationResult(schema.tables, normalization_type,
        [i \in 1..Len(schema.tables) |->
            NormalizeTable(schema.tables[i], F, normalization_type, ord)])

(***************************************************************************)
(* Schemas handed to normalize_schema: up to MaxSchemaTables tables over   *)
(* overlapping columns, so that an FD may reach into a table in part.      *)
(***************************************************************************)

MaxSchemaTables == 2

SchemaTables ==
    {[name |-> "R", columns |-> <<"A", "B", "C">>, constraints |-> <<>>],
     [name |-> "S", columns |-> <<"B", "C", "D">>, constraints |-> <<>>]}

InitSchema ==
    /\ \E tables \in SeqsUpTo(SchemaTables, MaxSchemaTables) :
          dsd = [tables |-> tables]
    /\ fds = <<>>
    /\ ret = NoCall
    /\ erd = NoErd
    /\ table = NoTable

\* The FDs of these calls: a single determinant attribute with any
\* dependent set.
SchemaFds == {fd \in InputFds : Cardinality(fd.determinant) = 1}

\* The iteration orders that can make a difference to a call: sets are
\* iterated by the 3NF synthesis only, which runs for a table that fails
\* the 3NF test.
SchemaOrders(normalization_type) ==
    IF /\ normalization_type = "3NF"
       /\ \E i \in DOMAIN dsd.tables :
             ~check_normalization_level(dsd.tables[i],
                                        AdjustedFds(dsd.tables[i], fds)).is_3nf
    THEN Orders(Attrs)
    ELSE {[i \in 1..NumAttrs |-> AttrNames[i]]}

\* A call normalize_schema(dsd, fds, normalization_type), its sets iterated
\* in ord.
NormalizeSchema(normalization_type, ord) ==
    /\ ret = NoCall
    /\ \E res \in {normalize_schema(dsd, fds, normalization_type, ord)} :
          ret' = [op |-> "normalize_schema", result |-> res]
    /\ UNCHANGED <<table, fds, erd, dsd>>

NextSchema ==
    \/ \E fd \in SchemaFds : ParseFd(fd.determinant, fd.dependent)
    \/ \E normalization_type \in {"BCNF", "3NF"} :
       \E ord \in SchemaOrders(normalization_type) :
          NormalizeSchema(normalization_type, ord)

SpecSchema == InitSchema /\ [][NextSchema]_vars

(***************************************************************************)
(* Properties of normalize_schema.                                         *)
(***************************************************************************)

\* Table t has a violation of the normal form among the FDs that
\* normalize_schema keeps for it.
HasViolation(t, normalization_type) ==
    LET all_attrs == get_column_names(t)
        relevant_fds == RelevantFds(t, AdjustedFds(t, fds))
    IN  \E i \in DOMAIN relevant_fds :
            IF normalization_type = "BCNF"
            THEN is_bcnf_violation(relevant_fds[i], all_attrs, relevant_fds)
            ELSE is_3nf_violation(relevant_fds[i], all_attrs, relevant_fds)

Word == 65536

\* The bounds of the integer buckets: 32768, and 2147483648 = 32768 * Word.
SmallIntLimit == 32768
IntegerLimitHigh == 32768

\* The length above which a string is a Text.
StringLimit == 255

\* A sample is its Python type and what the function reads of it: the value
\* of a bool, an int or a float (in thousandths), the length of a str.
infer_from_sample(value) ==
    CASE value.type = "bool" -> "Boolean"
      [] value.type = "int" ->
            IF value.high = 0 /\ value.low < SmallIntLimit THEN "SmallInt"
            ELSE IF value.high < IntegerLimitHigh THEN "Integer"
            ELSE "BigInt"
      [] value.type = "float" -> "Decimal"
      [] value.type = "str" ->
            IF value.len > StringLimit THEN "Text" ELSE "String"
      [] value.type \in {"list", "dict"} -> "JSON"
      [] OTHER -> "String"

SQL_TO_LOGICAL_TYPE ==
    [VARCHAR |-> "String", TEXT |-> "Text", CHAR |-> "String", INT |-> "Integer",
     INTEGER |-> "Integer", BIGINT |-> "Long", SMALLINT |-> "Integer",
     DECIMAL |-> "Decimal", NUMERIC |-> "Decimal", FLOAT |-> "Float",
     DOUBLE |-> "Float", REAL |-> "Float", BOOLEAN |-> "Boolean",
     BOOL |-> "Boolean", DATE |-> "Date", TIME |-> "Time",
     TIMESTAMP |-> "DateTime", DATETIME |-> "DateTime", JSON |-> "JSON",
     JSONB |-> "JSON", BLOB |-> "Binary", BYTEA |-> "Binary"]

\* str.upper() of a data type: the lowercase spellings among the inputs; the
\* SQL types of TYPE_MAPPINGS hold no lowercase letter.
LowercaseTypes ==
    [varchar |-> "VARCHAR", integer |-> "INTEGER", jsonb |-> "JSONB",
     bigint |-> "BIGINT"]

type_upper(sql_type) ==
    IF sql_type \in DOMAIN LowercaseTypes THEN LowercaseTypes[sql_type]
    ELSE sql_type

\* SQL_TO_LOGICAL_TYPE.get(sql_type.upper(), 'String')
logical_type_of(sql_type) ==
    IF type_upper(sql_type) \in DOMAIN SQL_TO_LOGICAL_TYPE
    THEN SQL_TO_LOGICAL_TYPE[type_upper(sql_type)]
    ELSE "String"

(***************************************************************************)
(* Calls of the type functions.                                            *)
(***************************************************************************)

MaxOffset == 3

\* The magnitudes within MaxOffset of 0, 42, 32768 and 2147483648.
Magnitudes ==
    {[high |-> 0, low |-> n] :
        n \in (0..MaxOffset) \cup ((42 - MaxOffset)..(42 + MaxOffset))
              \cup ((SmallIntLimit - MaxOffset)..(SmallIntLimit + MaxOffset))}
    \cup {[high |-> IntegerLimitHigh - 1, low |-> Word - d] : d \in 1..MaxOffset}
    \cup {[high |-> IntegerLimitHigh, low |-> d] : d \in 0..MaxOffset}

Samples ==
    {[type |-> "bool", value |-> b] : b \in BOOLEAN}
    \cup {[type |-> "int", negative |-> FALSE, high |-> m.high, low |-> m.low] :
              m \in Magnitudes}
    \cup {[type |-> "int", negative |-> TRUE, high |-> m.high, low |-> m.low] :
              m \in {k \in Magnitudes : k.high > 0 \/ k.low > 0}}
    \cup {[type |-> "float", value |-> 3140]}
    \cup {[type |-> "str", len |-> StringLimit + d] : d \in (0 - MaxOffset)..MaxOffset}
    \cup {[type |-> ty] : ty \in {"list", "dict", "NoneType"}}

SupportedDialects == DOMAIN TYPE_MAPPINGS

LogicalTypes == DOMAIN TYPE_MAPPINGS["postgresql"]

DataTypes ==
    DOMAIN SQL_TO_LOGICAL_TYPE \cup DOMAIN LowercaseTypes \cup {"MONEY"}
    \cup {map_type(dialect, t, None) : dialect \in SupportedDialects, t \in LogicalTypes}

InitTypes ==
    /\ ret = NoCall
    /\ erd = NoErd
    /\ dsd = NoDsd
    /\ table = NoTable
    /\ fds = <<>>

\* A call TypeInference.infer_from_sample(value).
InferFromSample(value) ==
    /\ ret = NoCall
    /\ ret' = [op |-> "infer_from_sample", value |-> value,
               result |-> infer_from_sample(value)]
    /\ UNCHANGED <<table, fds, erd, dsd>>

\* A call TypeMapper(dialect).map_type(logical_type).
MapType(dialect, logical_type) ==
    /\ ret = NoCall
    /\ ret' = [op |-> "map_type", dialect |-> dialect,
               logical_type |-> logical_type,
               sql_type |-> map_type(dialect, logical_type, None)]
    /\ UNCHANGED <<table, fds, erd, dsd>>

\* parse_reactflow_to_erd, the type of one inline attribute: of an
\* attribute of any data type, or of one that carries the SQL type map_type
\* has just produced.
ParseDataType(data_type) ==
    /\ \/ ret = NoCall
       \/ ret.op = "map_type" /\ data_type = ret.sql_type
    /\ ret' = [op |-> "parse_reactflow_to_erd", mapped |-> ret,
               data_type |-> data_type, type |-> logical_type_of(data_type)]
    /\ UNCHANGED <<table, fds, erd, dsd>>

NextTypes ==
    \/ \E value \in Samples : InferFromSample(value)
    \/ \E dialect \in SupportedDialects, logical_type \in LogicalTypes :
          MapType(dialect, logical_type)
    \/ \E data_type \in DataTypes : ParseDataType(data_type)

SpecTypes == InitTypes /\ [][NextTypes]_vars

(***************************************************************************)
(* Properties of the type functions.                                       *)
(***************************************************************************)

\* -2147483648 <= n < 2147483648
FitsIn32Bits(n) ==
    \/ n.high < IntegerLimitHigh
    \/ n.negative /\ n.high = IntegerLimitHigh /\ n.low = 0

\* C19: infer_from_sample returns 'Boolean' for a boolean sample and
\* 'Integer' for an integer sample that is not a boolean and fits in 32
\* bits, small values such as 42 included.
C19_InfersIntegerFor32Bits ==
    ret.op = "infer_from_sample" =>
        /\ ret.value.type = "bool" => ret.result = "Boolean"
        /\ (ret.value.type = "int" /\ FitsIn32Bits(ret.value)) =>
               ret.result = "Integer"

\* The families of logical types: the types that stand for the same kind of
\* value.
Families ==
    {{"String", "Text", "UUID"}, {"Integer", "SmallInt", "BigInt", "Long"},
     {"Decimal", "Float", "Double"}, {"Boolean"},
     {"Date", "Time", "DateTime", "Timestamp"}, {"Binary"}, {"JSON", "Array"}}

SameFamily(t, u) == \E family \in Families : t \in family /\ u \in family

\* C20: for every dialect and every logical type t of TypeMapper, the SQL
\* type that map_type gives for t is read back through SQL_TO_LOGICAL_TYPE
\* (upper-cased, 'String' by default) as a logical type of the same family
\* as t, and one that map_type accepts.
C20_TypeRoundTrip ==
    (ret.op = "parse_reactflow_to_erd" /\ ret.mapped.op = "map_type") =>
        /\ SameFamily(ret.mapped.logical_type, ret.type)
        /\ ret.type \in DOMAIN TYPE_MAPPINGS[ret.mapped.dialect]

(***************************************************************************)
(* fd_parser.py: the free-text grammar.  A Python str is modelled as the   *)
(* sequence of its characters, an attribute name being such a sequence.    *)
(***************************************************************************)

UpperLetters == Range(AttrNames)
LowerLetters == Range(LowerNames)
Whitespace == {" ", "\n"}

\* str.split(sep) for a one-character sep, and re.split on a character
\* class: the pieces between the separators, empty pieces included.
RECURSIVE SplitOn(_, _)
SplitOn(text, seps) ==
    LET hits == {i \in 1..Len(text) : text[i] \in seps}
    IN  IF hits = {} THEN <<text>>
        ELSE <<SubSeq(text, 1, MinOf(hits) - 1)>>
                 \o SplitOn(SubSeq(text, MinOf(hits) + 1, Len(text)), seps)

\* line.split('->')
RECURSIVE split_arrow(_)
split_arrow(line) ==
    LET hits == {i \in 1..(Len(line) - 1) : line[i] = "-" /\ line[i + 1] = ">"}
    IN  IF hits = {} THEN <<line>>
        ELSE <<SubSeq(line, 1, MinOf(hits) - 1)>>
                 \o split_arrow(SubSeq(line, MinOf(hits) + 2, Len(line)))

\* str.strip()
strip(text) ==
    LET solid == {i \in 1..Len(text) : text[i] \notin Whitespace}
    IN  IF solid = {} THEN <<>>
        ELSE SubSeq(text, MinOf(solid), CHOOSE i \in solid : \A j \in solid : j <= i)

\* str.islower(): some cased character, and no uppercase one.
islower(text) ==
    /\ \E i \in 1..Len(text) : text[i] \in LowerLetters
    /\ \A i \in 1..Len(text) : text[i] \notin UpperLetters

\* [a.strip() for a in pieces], then [a for a in attrs if a]
StrippedNonEmpty(pieces) ==
    SelectSeq([i \in 1..Len(pieces) |-> strip(pieces[i])], LAMBDA a : Len(a) > 0)

\* parse_attribute_list
parse_attribute_list(attr_string) ==
    LET stripped == strip(attr_string)
    IN  IF Len(stripped) = 0 THEN <<>>
        ELSE IF "," \in Range(stripped)
        THEN StrippedNonEmpty(SplitOn(stripped, {","}))
        ELSE IF " " \in Range(stripped)
        THEN StrippedNonEmpty(SplitOn(stripped, Whitespace))
        ELSE IF \/ "_" \in Range(stripped)
                \/ islower(stripped)
                \/ stripped[1] \in UpperLetters
        THEN <<stripped>>
        ELSE [i \in 1..Len(stripped) |-> <<stripped[i]>>]

\* The body of the loop of parse_fd_string for one line: the FDs it appends.
ParseLine(text) ==
    LET line == strip(text)
        parts == split_arrow(line)
    IN  IF Len(line) = 0 \/ Len(parts) # 2 THEN <<>>
        ELSE LET determinant == parse_attribute_list(strip(parts[1]))
                 dependent == parse_attribute_list(strip(parts[2]))
             IN  IF Len(determinant) > 0 /\ Len(dependent) > 0
                 THEN <<FunctionalDependency(Range(determinant), Range(dependent))>>
                 ELSE <<>>

\* parse_fd_string
parse_fd_string(fd_string) ==
    LET fd_lines == SplitOn(fd_string, {";", "\n"})
    IN  Flatten([i \in 1..Len(fd_lines) |-> ParseLine(fd_lines[i])])

(***************************************************************************)
(* Inputs of the parser: every text of up to MaxText characters.           *)
(***************************************************************************)

MaxText == 6

Characters == {"A", "B", "c", "_", ",", " ", "-", ">", ";"}

InitParse ==
    /\ ret = [op |-> "fd_string", text |-> <<>>]
    /\ table = NoTable
    /\ fds = <<>>
    /\ erd = NoErd
    /\ dsd = NoDsd

\* The caller's text grows by one character.
TypeCharacter(c) ==
    /\ ret.op = "fd_string"
    /\ Len(ret.text) < MaxText
    /\ ret' = [ret EXCEPT !.text = Append(@, c)]
    /\ UNCHANGED <<table, fds, erd, dsd>>

\* A call parse_fd_string(text).
ParseFdString ==
    /\ ret.op = "fd_string"
    /\ \E res \in {parse_fd_string(ret.text)} :
          /\ ret' = [op |-> "parse_fd_string", fd_string |-> ret.text,
                     result |-> res]
          /\ fds' = res
    /\ UNCHANGED <<table, erd, dsd>>

NextParse ==
    \/ \E c \in Characters : TypeCharacter(c)
    \/ ParseFdString

SpecParse == InitParse /\ [][NextParse]_vars

(***************************************************************************)
(* Properties of the parser.                                               *)
(***************************************************************************)

\* A non-empty token made of letters only.
IsLetterToken(text) ==
    /\ Len(text) > 0
    /\ \A i \in 1..Len(text) : text[i] \in UpperLetters \cup LowerLetters

\* The single-letter attributes of a token.
LettersOf(text) == {<<text[i]>> : i \in 1..Len(text)}

\* C21: for a text `left -> right` (blanks around the sides allowed) whose
\* sides are each one token of letters, parse_fd_string returns the single
\* FD whose determinant is the set of letters of left and whose dependent
\* is the set of letters of right, as for "AB -> CD".
C21_ConcatenatedLetters ==
    ret.op = "parse_fd_string" =>
        \A i \in 1..(Len(ret.fd_string) - 1) :
            LET left == strip(SubSeq(ret.fd_string, 1, i - 1))
                right == strip(SubSeq(ret.fd_string, i + 2, Len(ret.fd_string)))
            IN  (/\ ret.fd_string[i] = "-" /\ ret.fd_string[i + 1] = ">"
                 /\ IsLetterToken(left) /\ IsLetterToken(right))
                => ret.result = <<FunctionalDependency(LettersOf(left),
                                                       LettersOf(right))>>

(***************************************************************************)
(* Further properties of the 3NF synthesis.                                *)
(***************************************************************************)

\* C22: the minimal cover that decompose computes from the relevant FDs is
\* equivalent to them: every attribute set has the same closure under the
\* cover as under the FDs the cover was computed from.
C22_MinimalCoverEquivalent ==
    ret.op = "ThreeNFDecomposer.decompose" =>
        \A X \in SUBSET Attrs :
            compute_closure(X, ret.minimal_cover) = compute_closure(X, ret.relevant)

(***************************************************************************)
(* BCNFDecomposer.decompose, one activation of _decompose_recursive per    *)
(* step.  `stack` holds the activations not yet started, the next one      *)
(* first: the activation for R1 and all it calls precede the one for R2,   *)
(* as in `result.extend(rec(r1)); result.extend(rec(r2))`.                 *)
(***************************************************************************)

Frame(t, F) == [table |-> t, fds |-> F]

Decomposing == ret.op = "BCNFDecomposer.decompose" /\ ret.pc = "running"

Decomposed == ret.op = "BCNFDecomposer.decompose" /\ ret.pc = "returned"

\* decompose up to its call of _decompose_recursive.
StartBcnfDecompose ==
    /\ ret = NoCall
    /\ ret' = [op |-> "BCNFDecomposer.decompose", pc |-> "running",
               relevant |-> RelevantFds(table, fds),
               stack |-> <<Frame(table, RelevantFds(table, fds))>>,
               result |-> <<>>, fdsOf |-> <<>>, counter |-> EmptyCounter,
               changes |-> <<>>, splits |-> <<>>]
    /\ UNCHANGED <<table, fds, erd, dsd>>

\* An activation that finds no violation: `return [table]`.
ReturnTable ==
    /\ Decomposing
    /\ Len(ret.stack) > 0
    /\ FindViolation(get_column_names(ret.stack[1].table), ret.stack[1].fds) = 0
    /\ ret' = [ret EXCEPT !.stack = Tail(@),
                          !.result = Append(@, ret.stack[1].table),
                          !.fdsOf = Append(@, ret.stack[1].fds)]
    /\ UNCHANGED <<table, fds, erd, dsd>>

\* An activation that finds a violation: it splits the table and calls
\* itself for R1, then for R2.
SplitOnViolation ==
    /\ Decomposing
    /\ Len(ret.stack) > 0
    /\ \E v \in {FindViolation(get_column_names(ret.stack[1].table),
                               ret.stack[1].fds)} :
          /\ v # 0
          /\ \E s \in {SplitTable(ret.stack[1].table, ret.stack[1].fds[v],
                                  ret.counter)} :
                ret' = [ret EXCEPT
                    !.stack = <<Frame(s.r1_table,
                                      project_fds(ret.stack[1].fds, s.split.r1)),
                                Frame(s.r2_table,
                                      project_fds(ret.stack[1].fds, s.split.r2))>>
                              \o Tail(@),
                    !.counter = s.counter,
                    !.changes = Append(@, s.change),
                    !.splits = Append(@, s.split)]
    /\ UNCHANGED <<table, fds, erd, dsd>>

\* The outermost activation has returned: decompose returns `result`.
ReturnBcnfDecompose ==
    /\ Decomposing
    /\ Len(ret.stack) = 0
    /\ ret' = [ret EXCEPT !.pc = "returned"]
    /\ UNCHANGED <<table, fds, erd, dsd>>

NextBcnf ==
    \/ \E fd \in InputFds : ParseFd(fd.determinant, fd.dependent)
    \/ StartBcnfDecompose
    \/ ReturnTable
    \/ SplitOnViolation
    \/ ReturnBcnfDecompose

SpecBcnf == InitNorm /\ [][NextBcnf]_vars

\* A call that has started runs on: the interpreter executes one statement
\* after the other.
SpecBcnfFair ==
    SpecBcnf /\ WF_vars(ReturnTable \/ SplitOnViolation \/ ReturnBcnfDecompose)

(***************************************************************************)
(* Properties of the BCNF decomposition.                                   *)
(***************************************************************************)

\* The stepwise run returns what the recursion returns.
StepsAgreeWithRecursion ==
    Decomposed =>
        \E res \in {BCNF_decompose(table, fds)} :
            /\ ret.result = res.tables
            /\ ret.fdsOf = res.fdsOf
            /\ ret.changes = res.changes
            /\ ret.splits = res.splits

\* C23: every split of _decompose_recursive yields two halves with strictly
\* fewer columns than the table split, and every call of decompose returns.
C23_BcnfTerminates ==
    /\ [](Decomposing =>
            \A i \in 1..Len(ret.splits) :
                /\ Cardinality(ret.splits[i].r1) < Cardinality(ret.splits[i].of)
                /\ Cardinality(ret.splits[i].r2) < Cardinality(ret.splits[i].of))
    /\ (Decomposing ~> Decomposed)

\* C23 witness: a call has returned after a half was split again.
C23_Witness ==
    /\ Decomposed
    /\ Len(ret.splits) >= 2

\* The union of the column sets of a list of tables.
ColumnsOfAll(tables) == UNION {get_column_names(tables[i]) : i \in 1..Len(tables)}

\* C24: for every split on a violating FD X -> Y, R1 and R2 together hold
\* the columns of the table split, they share exactly X, and X determines
\* every column of R1 under the original FDs; the fragments returned hold
\* together exactly the columns of the original table.
C24_SplitsAreLossless ==
    ret.op = "BCNFDecomposer.decompose" =>
        /\ \A i \in 1..Len(ret.splits) :
              /\ ret.splits[i].r1 \cup ret.splits[i].r2 = ret.splits[i].of
              /\ ret.splits[i].r1 \cap ret.splits[i].r2 = ret.splits[i].x
              /\ ret.splits[i].r1 \subseteq compute_closure(ret.splits[i].x, fds)
        /\ ret.pc = "returned" => ColumnsOfAll(ret.result) = get_column_names(table)

\* C24 witness: a returned call that split on an FD with two determinant
\* attributes and split a half again.
C24_Witness ==
    /\ Decomposed
    /\ Len(ret.splits) >= 2
    /\ \E i \in 1..Len(ret.splits) : Cardinality(ret.splits[i].x) = 2

(***************************************************************************)
(* erd_to_dsd/__init__.py: transform_erd_to_sql, one action per step of    *)
(* the function.  An Optional entry of `result` is a list of 0 or 1        *)
(* elements; the error messages are stood for by the issues they render.   *)
(***************************************************************************)

\* Mutant of StopsAfterValidation: warnings stop the call as well.
StopsAfterValidation_on_warnings(validation_results) ==
    validation_results.errors > 0 \/ validation_results.warnings > 0

\* `if validation_results['errors'] > 0`
StopsAfterValidation(validation_results) == validation_results.errors > 0

\* map_type raises ValueError for a logical type the dialect does not map.
RaisesUnknownType(dialect, entity) ==
    \E i \in 1..Len(entity.attributes) :
        Get(entity.attributes[i], "type", "String") \notin DOMAIN TYPE_MAPPINGS[dialect]

\* The `except Exception` clause: the message is appended and result returned.
Raise(message) ==
    [ret EXCEPT !.pc = "returned", !.raised = TRUE,
                !.result.errors = Append(@, message)]

PipelineDialects == Dialects \cup {"oracle"}

PipelineAttributes ==
    {Attribute("id", "Integer", TRUE), Attribute("note", "String", FALSE),
     Attribute("shape", "Geometry", FALSE)}

PipelineEntities ==
    {[name |-> n, attributes |-> attrs] :
        n \in EntityNames, attrs \in SeqsUpTo(PipelineAttributes, MaxAttributes)}

\* A call transform_erd_to_sql(erd_json, dialect, validate, include_drop),
\* before its first statement.
InitPipeline ==
    /\ \E dialect \in PipelineDialects, flag \in BOOLEAN, include_drop \in BOOLEAN :
          ret = [op |-> "transform_erd_to_sql", pc |-> "called",
                 dialect |-> dialect, validate |-> flag,
                 include_drop |-> include_drop, raised |-> FALSE, steps |-> <<>>,
                 result |-> [sql |-> <<>>, dsd |-> <<>>, validation |-> <<>>,
                             success |-> FALSE, errors |-> <<>>]]
    /\ erd = NoErd
    /\ dsd = NoDsd
    /\ table = NoTable
    /\ fds = <<>>

\* ERDToDSDTransformer(dialect) and transform up to its loops: TypeMapper
\* raises for a dialect it has no mappings for.
ConstructTransformer ==
    /\ ret.op = "transform_erd_to_sql" /\ ret.pc = "called"
    /\ IF ret.dialect \notin DOMAIN TYPE_MAPPINGS
       THEN /\ ret' = [Raise("Unsupported dialect") EXCEPT
                          !.steps = Append(@, "transform")]
            /\ dsd' = dsd
       ELSE /\ ret' = [ret EXCEPT !.pc = "transform",
                                  !.steps = Append(@, "transform")]
            /\ dsd' = [DSDSchema("database", ret.dialect) EXCEPT !.description = ""]
    /\ UNCHANGED <<table, fds, erd>>

\* transform, one round of its loop over the entities.
TransformRound(entity) ==
    /\ ret.op = "transform_erd_to_sql" /\ ret.pc = "transform"
    /\ erd.relationships = <<>>
    /\ Len(erd.entities) < MaxEntities
    /\ erd' = [erd EXCEPT !.entities = Append(@, entity)]
    /\ IF RaisesUnknownType(dsd.dialect, entity)
       THEN /\ ret' = Raise("Unknown logical type")
            /\ dsd' = dsd
       ELSE /\ ret' = ret
            /\ dsd' = [dsd EXCEPT !.tables =
                          Append(@, transform_entity_to_table(dsd.dialect, entity))]
    /\ UNCHANGED <<table, fds>>

\* transform, one round of its loop over the relationships.
RelationshipRound(relationship) ==
    /\ ret.op = "transform_erd_to_sql" /\ ret.pc = "transform"
    /\ Len(erd.relationships) < MaxRelationships
    /\ erd' = [erd EXCEPT !.relationships = Append(@, relationship)]
    /\ dsd' = process_relationship(relationship, dsd)
    /\ UNCHANGED <<table, fds, ret>>

\* transform returns: result['dsd'] = dsd.
TransformReturns ==
    /\ ret.op = "transform_erd_to_sql" /\ ret.pc = "transform"
    /\ ret' = [ret EXCEPT !.pc = IF ret.validate THEN "validate" ELSE "generate",
                          !.result.dsd = <<dsd>>]
    /\ UNCHANGED <<table, fds, erd, dsd>>

\* The `if validate:` block.
ValidateDsd ==
    /\ ret.op = "transform_erd_to_sql" /\ ret.pc = "validate"
    /\ \E validation_results \in {validate(dsd)} :
          ret' = [ret EXCEPT
              !.steps = Append(@, "validate"),
              !.result.validation = <<validation_results>>,
              !.result.errors =
                  IF StopsAfterValidation(validation_results)
                  THEN SelectSeq(validation_results.issues,
                                 LAMBDA issue : issue.severity = "error")
                  ELSE @,
              !.pc = IF StopsAfterValidation(validation_results)
                     THEN "returned" ELSE "generate"]
    /\ UNCHANGED <<table, fds, erd, dsd>>

\* SQLScriptGenerator(dialect).generate_full_script(dsd, include_drop), then
\* `return result`.
GenerateScript ==
    /\ ret.op = "transform_erd_to_sql" /\ ret.pc = "generate"
    /\ ret' = [ret EXCEPT
           !.steps = Append(@, "generate"),
           !.result.sql = <<format_schema(ret.dialect, dsd, ret.include_drop)>>,
           !.result.success = TRUE,
           !.pc = "returned"]
    /\ UNCHANGED <<table, fds, erd, dsd>>

NextPipeline ==
    \/ ConstructTransformer
    \/ \E entity \in PipelineEntities : TransformRound(entity)
    \/ \E relationship \in SqlRelationships : RelationshipRound(relationship)
    \/ TransformReturns
    \/ ValidateDsd
    \/ GenerateScript

SpecPipeline == InitPipeline /\ [][NextPipeline]_vars

(***************************************************************************)
(* Properties of transform_erd_to_sql.                                     *)
(***************************************************************************)

IsPrefix(s, t) == Len(s) <= Len(t) /\ \A i \in 1..Len(s) : s[i] = t[i]

\* The validation ran and reported at least one issue of severity error.
ReportedErrors ==
    /\ ret.result.validation # <<>>
    /\ \E i \in DOMAIN ret.result.validation[1].issues :
          ret.result.validation[1].issues[i].severity = "error"

OneToManyRelationships == {r \in ErdRelationships : r.type = "1:N"}

\* transform, the round of its loop over the relationships for a
\* relationship equal to the one of the round before.
ProcessRelationshipAgain ==
    /\ ret.op = "_process_relationship"
    /\ erd' = [erd EXCEPT !.relationships = Append(@, ret.relationship)]
    /\ dsd' = process_relationship(ret.relationship, dsd)
    /\ ret' = [op |-> "_process_relationship again",
               relationship |-> ret.relationship, before |-> dsd]
    /\ UNCHANGED <<table, fds>>

NextReapply ==
    \/ \E entity \in ErdEntities : TransformEntity(entity)
    \/ \E relationship \in OneToManyRelationships : ProcessRelationship(relationship)
    \/ ProcessRelationshipAgain

SpecReapply == InitErd /\ [][NextReapply]_vars

\* C26: processing a 1:N relationship a second time leaves the DSD as the
\* first processing left it: no column, constraint or index is added.
C26_OneToManyIdempotent ==
    ret.op = "_process_relationship again" => dsd = ret.before

\* C27: every fragment T returned by BCNFDecomposer.decompose is in BCNF
\* with respect to the FDs implied by the original FDs of the table: for
\* every set X of columns of T, the closure of X under the original FDs,
\* cut down to T's columns, lies within X or is all of T's columns.
C27_FragmentsInBcnfForImpliedFds ==
    Decomposed =>
        \A i \in 1..Len(ret.result) :
            \A X \in SUBSET get_column_names(ret.result[i]) :
                LET implied == compute_closure(X, ret.relevant)
                                   \cap get_column_names(ret.result[i])
                IN  \/ implied \subseteq X
                    \/ implied = get_column_names(ret.result[i])

\* C28: the tables returned by BCNFDecomposer.decompose have pairwise
\* distinct names, and every FOREIGN KEY constraint of a returned table
\* references a returned table and lists columns that both tables have.
C28_ForeignKeysReferenceFragments ==
    Decomposed =>
        /\ \A i, j \in 1..Len(ret.result) :
              i # j => ret.result[i].name # ret.result[j].name
        /\ \A i \in 1..Len(ret.result) :
              \A k \in 1..Len(ret.result[i].constraints) :
                  LET fk == ret.result[i].constraints[k]
                  IN  fk.type = "FOREIGN KEY" =>
                          \E j \in 1..Len(ret.result) :
                              /\ ret.result[j].name = fk.referenced_table
                              /\ fk.columns \subseteq get_column_names(ret.result[i])
                              /\ fk.referenced_columns
                                     \subseteq get_column_names(ret.result[j])

\* C29: the fragments returned by ThreeNFDecomposer.decompose hold together
\* exactly the columns of the original table.
C29_SynthesisKeepsAllColumns ==
    ret.op = "ThreeNFDecomposer.decompose" =>
        ColumnsOfAll(ret.result) = get_column_names(table)

(***************************************************************************)
(* Further properties of the ERD -> DSD transformation.                    *)
(***************************************************************************)

\* C30: when the entity names of the ERD are pairwise distinct and the
\* attribute names are unique within each entity, every table of the DSD,
\* after the entities and any relationships processed so far (a relationship
\* of an entity with itself included), has pairwise distinct column names
\* and at most one PRIMARY KEY constraint.
C30_DistinctColumnsOnePrimaryKey ==
    (/\ \A i, j \in 1..Len(erd.entities) :
            i # j => erd.entities[i].name # erd.entities[j].name
     /\ \A i \in 1..Len(erd.entities) :
            \A k, l \in 1..Len(erd.entities[i].attributes) :
                k # l => erd.entities[i].attributes[k].name
                             # erd.entities[i].attributes[l].name)
    => \A i \in 1..Len(dsd.tables) :
           /\ \A k, l \in 1..Len(dsd.tables[i].columns) :
                  k # l => dsd.tables[i].columns[k].name # dsd.tables[i].columns[l].name
           /\ Len(PrimaryKeys(dsd.tables[i])) <= 1

=============================================================================
